---------------------------- MODULE Spec2Model ----------------------------
(***************************************************************************)
(* tap-powerbi: the TMDL table parser (tmdl_parser.py) and the extraction  *)
(* of visible tables from a Fabric getDefinition response.                 *)
(*                                                                         *)
(* Python strings are TLA+ strings; TLC evaluates Len, \o, SubSeq, Head    *)
(* and Tail on them, so every string operation of the source is modelled   *)
(* character by character.  An optional value (None or a value) is the     *)
(* empty tuple or a one-element tuple.                                     *)
(***************************************************************************)
EXTENDS Integers, Sequences, FiniteSets, TLC

VARIABLES
    tmdl_text,   \* parse_tmdl_table: the argument
    lines,       \* parse_tmdl_table: tmdl_text.split("\n")
    i,           \* parse_tmdl_table: position of the for loop in lines
    st,          \* parse_tmdl_table: its locals (table_name ... col_hidden)
    result,      \* parse_tmdl_table: the returned value
    pc,          \* parse_tmdl_table: "loop" or "done"
    definition,  \* tables_from_definition: the argument's "parts" list
    k,           \* tables_from_definition: position of the for loop in parts
    tables,      \* tables_from_definition: the list being built
    dpc,         \* tables_from_definition: "idle", "loop", "done", "raised"
    proto,       \* _prototype_to_dax, _infer_columns_from_proto: the argument
    visual_type, \* _prototype_to_dax: the argument
    dax,         \* _prototype_to_dax: the returned value
    dax_pc,      \* _prototype_to_dax: "idle", "call", "done", "raised"
    inferred,    \* _infer_columns_from_proto: the returned value
    infer_pc,    \* _infer_columns_from_proto: "idle", "call", "done", "raised"
    single_visual, \* _extract_title: the argument
    title,       \* _extract_title: the returned value
    title_pc,    \* _extract_title: "idle", "call", "done", "raised"
    report,      \* visuals_from_report_definition: the argument
    report_json, \* visuals_from_report_definition: the decoded report.json
    sec,         \* visuals_from_report_definition: position in sections
    vc,          \* visuals_from_report_definition: position in visualContainers
    visuals,     \* visuals_from_report_definition: the list being built
    vis_pc,      \* visuals_from_report_definition: "idle", "load", "section",
                 \* "container", "done", "raised"
    row,         \* flatten_row: the argument
    cleaned,     \* flatten_row: the returned value
    flat_pc,     \* flatten_row: "idle", "call", "done"
    heap,        \* type_mapping: the dict objects, by identity
    powerbi_type, \* powerbi_type_to_jsonschema: the argument
    fragment,    \* powerbi_type_to_jsonschema: the returned dict
    column_list, \* build_schema_from_columns: the argument columns
    schema,      \* build_schema_from_columns: the returned value
    schema_pc,   \* build_schema_from_columns: "idle", "done", "raised"
    calls,       \* type_mapping: calls made so far
    initial_resp, \* _poll_fabric_operation: the argument (its Retry-After header)
    retry_after, \* _poll_fabric_operation: seconds of the next sleep
    polls,       \* _poll_fabric_operation: iterations of the loop begun
    io,          \* _poll_fabric_operation: the sleeps and requests made, in order
    poll_out,    \* _poll_fabric_operation: the value returned or exception raised
    poll_pc,     \* _poll_fabric_operation: "idle", "start", "loop", "request",
                 \* "result", "done", "raised"
    dt_rest,     \* _discover_tables: the answer of the REST /tables request
    dt_fabric,   \* _discover_tables: the answer of the Fabric getDefinition request
    dt_calls,    \* _discover_tables: the attempts made, in order
    dt_out,      \* _discover_tables: the returned list
    dt_pc,       \* _discover_tables: "idle", "rest", "fabric", "done"
    world,       \* discover_streams: the answers of the API to its requests
    workspaces,  \* discover_streams: the listed workspaces
    ws_i,        \* discover_streams: position of the loop over workspaces
    streams,     \* discover_streams: the list being built
    disc_pc      \* discover_streams: "idle", "list", "datasets", "reports", "done"

tmdlVars == <<tmdl_text, lines, i, st, result, pc>>
defVars == <<definition, k, tables, dpc>>
daxVars == <<proto, visual_type, dax, dax_pc, inferred, infer_pc>>
titleVars == <<single_visual, title, title_pc>>
visVars == <<report, report_json, sec, vc, visuals, vis_pc>>
flatVars == <<row, cleaned, flat_pc>>
schemaVars == <<heap, powerbi_type, fragment, column_list, schema, schema_pc, calls>>
pollVars == <<initial_resp, retry_after, polls, io, poll_out, poll_pc>>
tabVars == <<dt_rest, dt_fabric, dt_calls, dt_out, dt_pc>>
discVars == <<world, workspaces, ws_i, streams, disc_pc>>
vars == <<tmdlVars, defVars, daxVars, titleVars, visVars, flatVars, schemaVars, pollVars, tabVars, discVars>>

\* What a step of one function leaves alone: the variables of the others.
notTmdl == <<defVars, daxVars, titleVars, visVars, flatVars, schemaVars, pollVars, tabVars, discVars>>
notDef == <<tmdlVars, daxVars, titleVars, visVars, flatVars, schemaVars, pollVars, tabVars, discVars>>
notDax == <<tmdlVars, defVars, titleVars, visVars, flatVars, schemaVars, pollVars, tabVars, discVars>>
notTitle == <<tmdlVars, defVars, daxVars, visVars, flatVars, schemaVars, pollVars, tabVars, discVars>>
notVis == <<tmdlVars, defVars, daxVars, titleVars, flatVars, schemaVars, pollVars, tabVars, discVars>>
notFlat == <<tmdlVars, defVars, daxVars, titleVars, visVars, schemaVars, pollVars, tabVars, discVars>>
notSchema == <<tmdlVars, defVars, daxVars, titleVars, visVars, flatVars, pollVars, tabVars, discVars>>
notPoll == <<tmdlVars, defVars, daxVars, titleVars, visVars, flatVars, schemaVars, tabVars, discVars>>
notTab == <<tmdlVars, defVars, daxVars, titleVars, visVars, flatVars, schemaVars, pollVars, discVars>>
notDisc == <<tmdlVars, defVars, daxVars, titleVars, visVars, flatVars, schemaVars, pollVars, tabVars>>

---------------------------------------------------------------------------
(* Bounds of the model.                                                    *)

MaxLines == 4
MaxParts == 3

---------------------------------------------------------------------------
(* Python values.                                                          *)

None == <<>>
Some(x) == <<x>>
IsNone(o) == o = None
Val(o) == o[1]

\* bool(x) of an optional string: None and "" are falsy.
Truthy(o) == ~IsNone(o) /\ Val(o) # ""

---------------------------------------------------------------------------
(* A function that is not being called.                                    *)

TmdlIdle ==
    /\ tmdl_text = "" /\ lines = <<>> /\ i = 1 /\ result = None /\ pc = "idle"

DefIdle == definition = <<>> /\ k = 1 /\ tables = <<>> /\ dpc = "idle"

DaxIdle ==
    /\ proto = None /\ visual_type = None
    /\ dax = None /\ dax_pc = "idle"
    /\ inferred = None /\ infer_pc = "idle"

TitleIdle == single_visual = None /\ title = None /\ title_pc = "idle"

VisIdle ==
    /\ report = None /\ report_json = None /\ sec = 1 /\ vc = 1
    /\ visuals = <<>> /\ vis_pc = "idle"

FlatIdle == row = <<>> /\ cleaned = <<>> /\ flat_pc = "idle"

SchemaIdle ==
    /\ heap = <<>> /\ powerbi_type = None /\ fragment = None
    /\ column_list = None /\ schema = None /\ schema_pc = "idle" /\ calls = 0

PollIdle ==
    /\ initial_resp = None /\ retry_after = 0 /\ polls = 0 /\ io = <<>>
    /\ poll_out = None /\ poll_pc = "idle"

TabIdle ==
    /\ dt_rest = None /\ dt_fabric = None /\ dt_calls = <<>>
    /\ dt_out = None /\ dt_pc = "idle"

DiscIdle ==
    /\ world = None /\ workspaces = <<>> /\ ws_i = 1 /\ streams = <<>>
    /\ disc_pc = "idle"

---------------------------------------------------------------------------
(* Python str methods.                                                     *)

Char(s, n) == SubSeq(s, n, n)

StartsWith(s, p) == Len(s) >= Len(p) /\ SubSeq(s, 1, Len(p)) = p

EndsWith(s, p) == Len(s) >= Len(p) /\ SubSeq(s, Len(s) - Len(p) + 1, Len(s)) = p

\* s[n:] with n >= 0 (0-based, as in Python).
From(s, n) == SubSeq(s, n + 1, Len(s))

Whitespace == {" ", "\t", "\n", "\r", "\f"}

RECURSIVE LStrip(_)
LStrip(s) ==
    IF Len(s) > 0 /\ Char(s, 1) \in Whitespace THEN LStrip(From(s, 1)) ELSE s

RECURSIVE RStrip(_)
RStrip(s) ==
    IF Len(s) > 0 /\ Char(s, Len(s)) \in Whitespace
    THEN RStrip(SubSeq(s, 1, Len(s) - 1))
    ELSE s

\* str.strip()
Strip(s) == RStrip(LStrip(s))

\* The first position in lo..hi at which Test holds, 0 when there is none
\* (the range is halved so that the evaluation stays shallow).
RECURSIVE FirstAt(_, _, _)
FirstAt(Test(_), lo, hi) ==
    IF lo > hi THEN 0
    ELSE IF lo = hi THEN (IF Test(lo) THEN lo ELSE 0)
    ELSE LET mid == (lo + hi) \div 2
             left == FirstAt(Test, lo, mid)
         IN  IF left # 0 THEN left ELSE FirstAt(Test, mid + 1, hi)

\* str.find(sub): 1-based position of the first occurrence at or after
\* position n, 0 when there is none.
FindFrom(s, sub, n) ==
    FirstAt(LAMBDA m : SubSeq(s, m, m + Len(sub) - 1) = sub, n, Len(s) - Len(sub) + 1)

\* str.split(sep, maxsplit); maxsplit = -1 is no limit.
RECURSIVE SplitMax(_, _, _)
SplitMax(s, sep, maxsplit) ==
    LET at == FindFrom(s, sep, 1) IN
    IF maxsplit = 0 \/ at = 0 THEN <<s>>
    ELSE <<SubSeq(s, 1, at - 1)>>
         \o SplitMax(From(s, at + Len(sep) - 1), sep,
                     IF maxsplit < 0 THEN maxsplit ELSE maxsplit - 1)

Split(s, sep) == SplitMax(s, sep, -1)

\* str.replace(old, new): left to right, non-overlapping.
RECURSIVE Replace(_, _, _)
Replace(s, old, new) ==
    LET at == FindFrom(s, old, 1) IN
    IF at = 0 THEN s
    ELSE SubSeq(s, 1, at - 1) \o new \o Replace(From(s, at + Len(old) - 1), old, new)

UpperCase == "ABCDEFGHIJKLMNOPQRSTUVWXYZ"
LowerCase == "abcdefghijklmnopqrstuvwxyz"

LowerChar(c) ==
    LET at == FindFrom(UpperCase, c, 1) IN
    IF at = 0 THEN c ELSE Char(LowerCase, at)

\* str.lower()
RECURSIVE Lower(_)
Lower(s) == IF Len(s) = 0 THEN s ELSE LowerChar(Char(s, 1)) \o Lower(From(s, 1))

\* dict.get(key, default)
Get(d, key, default) == IF key \in DOMAIN d THEN d[key] ELSE default

\* "\n".join(ls)
RECURSIVE Join(_)
Join(ls) ==
    IF Len(ls) = 0 THEN ""
    ELSE IF Len(ls) = 1 THEN ls[1]
    ELSE ls[1] \o "\n" \o Join(Tail(ls))

---------------------------------------------------------------------------
(* tmdl_parser.py                                                          *)

TMDL_TYPE_MAP ==
    [t \in {"string", "int64", "double", "decimal", "boolean", "datetime", "binary"} |->
        CASE t = "string" -> "String"
          [] t = "int64" -> "Int64"
          [] t = "double" -> "Double"
          [] t = "decimal" -> "Decimal"
          [] t = "boolean" -> "Boolean"
          [] t = "datetime" -> "DateTime"
          [] t = "binary" -> "String"]

\* tmdl_type_to_powerbi_type that looks the token up as it is written.
tmdl_type_to_powerbi_type_CaseSensitive(tmdl_type) ==
    Get(TMDL_TYPE_MAP, tmdl_type, "String")

tmdl_type_to_powerbi_type(tmdl_type) == Get(TMDL_TYPE_MAP, Lower(tmdl_type), "String")

\* unquote_tmdl_name that leaves doubled quotes as they are.
unquote_tmdl_name_KeepsDoubled(name) ==
    LET n == Strip(name) IN
    IF StartsWith(n, "'") /\ EndsWith(n, "'")
    THEN SubSeq(n, 2, Len(n) - 1)
    ELSE n

unquote_tmdl_name(name) ==
    LET n == Strip(name) IN
    IF StartsWith(n, "'") /\ EndsWith(n, "'")
    THEN Replace(SubSeq(n, 2, Len(n) - 1), "''", "'")
    ELSE n

\* The locals of parse_tmdl_table before its loop.
ParserStart ==
    [table_name |-> None, table_hidden |-> FALSE, columns |-> <<>>,
     in_column |-> FALSE, col_name |-> None, col_type |-> "String",
     col_hidden |-> FALSE]

\* flush_column without its test of col_hidden.
flush_column_KeepsHidden(s) ==
    [s EXCEPT
        !.columns = IF s.in_column /\ Truthy(s.col_name)
                    THEN Append(@, [name |-> Val(s.col_name), dataType |-> s.col_type])
                    ELSE @,
        !.in_column = FALSE,
        !.col_name = None,
        !.col_type = "String",
        !.col_hidden = FALSE]

flush_column(s) ==
    [s EXCEPT
        !.columns = IF s.in_column /\ Truthy(s.col_name) /\ ~s.col_hidden
                    THEN Append(@, [name |-> Val(s.col_name), dataType |-> s.col_type])
                    ELSE @,
        !.in_column = FALSE,
        !.col_name = None,
        !.col_type = "String",
        !.col_hidden = FALSE]

\* The tests of the loop body, on the stripped line, in the order the code
\* makes them.
IsSkipped(stripped) == stripped = "" \/ StartsWith(stripped, "///")

IsTableDecl(stripped) == ~IsSkipped(stripped) /\ StartsWith(stripped, "table ")

IsColumnDecl(stripped) ==
    ~IsSkipped(stripped) /\ ~IsTableDecl(stripped) /\ StartsWith(stripped, "column ")

ChildPrefixes == {"measure ", "partition ", "hierarchy ", "annotation ", "calculationGroup"}

IsChildObject(stripped) ==
    /\ ~IsSkipped(stripped) /\ ~IsTableDecl(stripped) /\ ~IsColumnDecl(stripped)
    /\ \E p \in ChildPrefixes : StartsWith(stripped, p)

IsProperty(stripped) ==
    /\ ~IsSkipped(stripped) /\ ~IsTableDecl(stripped)
    /\ ~IsColumnDecl(stripped) /\ ~IsChildObject(stripped)

\* The branches of the loop body.
\* OnTableDecl that keeps a name once it is set.
OnTableDecl_FirstWins(s, stripped) ==
    IF IsNone(s.table_name)
    THEN [s EXCEPT !.table_name = Some(unquote_tmdl_name(From(stripped, 6)))]
    ELSE s

OnTableDecl(s, stripped) ==
    [s EXCEPT !.table_name = Some(unquote_tmdl_name(From(stripped, 6)))]

\* OnColumnDecl that takes the whole declaration for the name.
OnColumnDecl_WholeDeclaration(s, stripped) ==
    LET col_decl == Strip(From(stripped, 7)) IN
    [flush_column(s) EXCEPT
        !.in_column = TRUE,
        !.col_name = Some(unquote_tmdl_name(col_decl)),
        !.col_type = "String",
        !.col_hidden = FALSE]

OnColumnDecl(s, stripped) ==
    LET col_decl == Strip(From(stripped, 7)) IN
    [flush_column(s) EXCEPT
        !.in_column = TRUE,
        !.col_name = Some(unquote_tmdl_name(Split(col_decl, "=")[1])),
        !.col_type = "String",
        !.col_hidden = FALSE]

\* OnChildObject that leaves the column context open.
OnChildObject_NoFlush(s, stripped) == s

OnChildObject(s, stripped) == flush_column(s)

\* OnProperty whose `isHidden` marks the table inside a column as well.
OnProperty_HidesTableInColumn(s, stripped) ==
    IF s.in_column
    THEN IF StartsWith(stripped, "dataType:")
         THEN [s EXCEPT !.col_type =
                  tmdl_type_to_powerbi_type(Strip(SplitMax(stripped, ":", 1)[2]))]
         ELSE IF stripped = "isHidden"
         THEN [s EXCEPT !.col_hidden = TRUE, !.table_hidden = ~IsNone(s.table_name)]
         ELSE s
    ELSE IF ~IsNone(s.table_name) /\ stripped = "isHidden"
    THEN [s EXCEPT !.table_hidden = TRUE]
    ELSE s

OnProperty(s, stripped) ==
    IF s.in_column
    THEN IF StartsWith(stripped, "dataType:")
         THEN [s EXCEPT !.col_type =
                  tmdl_type_to_powerbi_type(Strip(SplitMax(stripped, ":", 1)[2]))]
         ELSE IF stripped = "isHidden"
         THEN [s EXCEPT !.col_hidden = TRUE]
         ELSE s
    ELSE IF ~IsNone(s.table_name) /\ stripped = "isHidden"
    THEN [s EXCEPT !.table_hidden = TRUE]
    ELSE s

\* One iteration of the loop.
ParseLine(s, line) ==
    LET stripped == Strip(line) IN
    IF IsSkipped(stripped) THEN s
    ELSE IF IsTableDecl(stripped) THEN OnTableDecl(s, stripped)
    ELSE IF IsColumnDecl(stripped) THEN OnColumnDecl(s, stripped)
    ELSE IF IsChildObject(stripped) THEN OnChildObject(s, stripped)
    ELSE OnProperty(s, stripped)

\* ParseReturn that takes a table without columns for no table.
ParseReturn_NoneWithoutColumns(s) ==
    LET f == flush_column(s) IN
    IF IsNone(f.table_name) \/ f.columns = <<>> THEN None
    ELSE Some([name |-> Val(f.table_name), columns |-> f.columns,
               isHidden |-> f.table_hidden])

\* What follows the loop: the last flush and the return value.
ParseReturn(s) ==
    LET f == flush_column(s) IN
    IF IsNone(f.table_name) THEN None
    ELSE Some([name |-> Val(f.table_name), columns |-> f.columns,
               isHidden |-> f.table_hidden])

RECURSIVE ParseLines(_, _)
ParseLines(s, ls) ==
    IF Len(ls) = 0 THEN s ELSE ParseLines(ParseLine(s, Head(ls)), Tail(ls))

\* parse_tmdl_table as a function of its argument.
parse_tmdl_table(text) == ParseReturn(ParseLines(ParserStart, Split(text, "\n")))

---------------------------------------------------------------------------
(* The texts parse_tmdl_table is run on: every text of at most MaxLines    *)
(* lines of a pool of lines.  Each specification of the parser draws its   *)
(* texts from the pool that holds the lines its claims are about.          *)

TextsOf(pool, n) == { Join(ls) : ls \in UNION { [1..m -> pool] : m \in 0..n } }

\* Tables, columns, a hidden flag, a type and a measure.
StructurePool ==
    { "/// doc",
      "table T",
      "table 'U'",
      "\tcolumn A",
      "\tcolumn B",
      "\tcolumn ''",
      "\t\tdataType: int64",
      "\t\tisHidden",
      "\tmeasure M = 1" }

\* Quoted names, doubled quotes, a lone quote, calculated columns.
NamePool ==
    { "table '",
      "table 'My ''T'''",
      "table  T ",
      "    column 'B''s' = [X] = 1 ",
      "\tcolumn C = \"dataType: int64\"",
      "\tcolumn 'D=E'",
      "\tcolumn  A ",
      "\t\tisHidden",
      "\tmeasure M = 1" }

\* One type token in each text.
TypeTokens ==
    { "string", "int64", "double", "decimal", "boolean", "dateTime", "binary",
      "guid", "INT64" }

TypeLine(tok) == "\t\tdataType: " \o tok

TypePool(tok) ==
    { "/// doc", "table T", "\tcolumn A", "\t\tsourceColumn: A", "\tmeasure M = 1",
      TypeLine(tok) }

\* One kind of child object in each text.
ChildLines ==
    { "\tmeasure M = 1", "\tpartition p = m", "\thierarchy H", "\tannotation a = 1",
      "\tcalculationGroup" }

ChildPool(child) ==
    { "/// doc", "table T", "\tcolumn A", "\t\tdataType: int64", "\t\tisHidden", child }

---------------------------------------------------------------------------
(* parse_tmdl_table, one step for each iteration of its loop.              *)

CurrentLine == Strip(lines[i])

InLoop == pc = "loop" /\ i <= Len(lines)

Advance(s) ==
    /\ st' = s
    /\ i' = i + 1
    /\ UNCHANGED <<tmdl_text, lines, result, pc, notTmdl>>

SkipLine == InLoop /\ IsSkipped(CurrentLine) /\ Advance(st)

TableDecl == InLoop /\ IsTableDecl(CurrentLine) /\ Advance(OnTableDecl(st, CurrentLine))

ColumnDecl == InLoop /\ IsColumnDecl(CurrentLine) /\ Advance(OnColumnDecl(st, CurrentLine))

ChildObject == InLoop /\ IsChildObject(CurrentLine) /\ Advance(OnChildObject(st, CurrentLine))

PropertyLine == InLoop /\ IsProperty(CurrentLine) /\ Advance(OnProperty(st, CurrentLine))

Return ==
    /\ pc = "loop" /\ i > Len(lines)
    /\ st' = flush_column(st)
    /\ result' = ParseReturn(st)
    /\ pc' = "done"
    /\ UNCHANGED <<tmdl_text, lines, i, notTmdl>>

InitTmdl(texts) ==
    /\ tmdl_text \in texts
    /\ lines = Split(tmdl_text, "\n")
    /\ i = 1
    /\ st = ParserStart
    /\ result = None
    /\ pc = "loop"
    /\ DefIdle /\ DaxIdle /\ TitleIdle /\ VisIdle /\ FlatIdle /\ SchemaIdle /\ PollIdle /\ TabIdle /\ DiscIdle

NextTmdl == SkipLine \/ TableDecl \/ ColumnDecl \/ ChildObject \/ PropertyLine \/ Return

Spec == InitTmdl(TextsOf(StructurePool, MaxLines)) /\ [][NextTmdl]_vars

SpecNames == InitTmdl(TextsOf(NamePool, MaxLines)) /\ [][NextTmdl]_vars

SpecTypes ==
    InitTmdl(UNION { TextsOf(TypePool(tok), MaxLines) : tok \in TypeTokens })
    /\ [][NextTmdl]_vars

SpecChild ==
    InitTmdl(UNION { TextsOf(ChildPool(child), MaxLines) : child \in ChildLines })
    /\ [][NextTmdl]_vars

---------------------------------------------------------------------------
(* base64.b64decode(payload).decode("utf-8"), as the standard library      *)
(* computes it: characters outside the alphabet are discarded, a complete  *)
(* padding ends the data, an incomplete last quad raises.  None stands for *)
(* a raised exception.                                                     *)

B64Alphabet == "ABCDEFGHIJKLMNOPQRSTUVWXYZabcdefghijklmnopqrstuvwxyz0123456789+/"

\* The six bits of each character of the alphabet.
B64Value ==
    [c \in { Char(B64Alphabet, n) : n \in 1..64 } |->
        (CHOOSE n \in 1..64 : Char(B64Alphabet, n) = c) - 1]

\* The decoder before its first character.
B64Start == [quad_pos |-> 0, leftchar |-> 0, pads |-> 0, out |-> <<>>, done |-> FALSE]

\* The decoder's step on one character c.
B64Step(d, c) ==
    LET v == Get(B64Value, c, -1) IN
    IF d.done THEN d
    ELSE IF c = "="
    THEN IF d.quad_pos >= 2 /\ d.quad_pos + d.pads + 1 >= 4
         THEN [d EXCEPT !.done = TRUE]
         ELSE [d EXCEPT !.pads = IF d.quad_pos >= 2 THEN @ + 1 ELSE @]
    ELSE IF v < 0 THEN d
    ELSE CASE d.quad_pos = 0 ->
                [d EXCEPT !.quad_pos = 1, !.leftchar = v, !.pads = 0]
           [] d.quad_pos = 1 ->
                [d EXCEPT !.quad_pos = 2, !.leftchar = v % 16, !.pads = 0,
                          !.out = Append(@, d.leftchar * 4 + v \div 16)]
           [] d.quad_pos = 2 ->
                [d EXCEPT !.quad_pos = 3, !.leftchar = v % 4, !.pads = 0,
                          !.out = Append(@, d.leftchar * 16 + v \div 4)]
           [] d.quad_pos = 3 ->
                [d EXCEPT !.quad_pos = 0, !.leftchar = 0, !.pads = 0,
                          !.out = Append(@, d.leftchar * 64 + v)]

\* The decoder run over s[lo..hi], left to right (the range is halved so
\* that the evaluation stays shallow).
RECURSIVE B64Scan(_, _, _, _)
B64Scan(d, s, lo, hi) ==
    IF lo > hi THEN d
    ELSE IF lo = hi THEN B64Step(d, Char(s, lo))
    ELSE LET mid == (lo + hi) \div 2
             left == B64Scan(d, s, lo, mid)
         IN  IF left.done THEN left ELSE B64Scan(left, s, mid + 1, hi)

\* base64.b64decode(s): the bytes, or None for binascii.Error.
b64decode(s) ==
    LET d == B64Scan(B64Start, s, 1, Len(s)) IN
    IF d.done \/ d.quad_pos = 0 THEN Some(d.out) ELSE None

\* The characters of the bytes 32 .. 95 and 97 .. 126 (a TLA+ string cannot
\* hold the character of byte 96).
AsciiLow ==
    " !\"#$%&'()*+,-./0123456789:;<=>?@ABCDEFGHIJKLMNOPQRSTUVWXYZ[\\]^_"
AsciiHigh == "abcdefghijklmnopqrstuvwxyz{|}~"

\* One byte of ASCII text as a character; None for a byte that can start no
\* UTF-8 sequence (UnicodeDecodeError).  The payloads of the model hold no
\* other byte.
Utf8Byte(b) ==
    IF (b >= 128 /\ b < 194) \/ b > 244 THEN None
    ELSE Some(CASE b = 9 -> "\t"
                [] b = 10 -> "\n"
                [] b = 13 -> "\r"
                [] b >= 32 /\ b <= 95 -> Char(AsciiLow, b - 31)
                [] b >= 97 /\ b <= 126 -> Char(AsciiHigh, b - 96))

\* bytes[lo..hi].decode("utf-8")
RECURSIVE Utf8Decode(_, _, _)
Utf8Decode(bytes, lo, hi) ==
    IF lo > hi THEN Some("")
    ELSE IF lo = hi THEN Utf8Byte(bytes[lo])
    ELSE LET mid == (lo + hi) \div 2
             left == Utf8Decode(bytes, lo, mid)
             right == Utf8Decode(bytes, mid + 1, hi)
         IN  IF IsNone(left) \/ IsNone(right) THEN None
             ELSE Some(Val(left) \o Val(right))

\* base64.b64decode(payload).decode("utf-8")
DecodePayload(payload) ==
    LET bytes == b64decode(payload) IN
    IF IsNone(bytes) THEN None ELSE Utf8Decode(Val(bytes), 1, Len(Val(bytes)))

---------------------------------------------------------------------------
(* tables_from_definition.  A dict is a function on its keys; {} is <<>>.  *)

EmptyDict == [x \in {} |-> x]

\* IsTablePath without the test of the ending.
IsTablePath_AnyEnding(path) == StartsWith(path, "definition/tables/")

IsTablePath(path) == StartsWith(path, "definition/tables/") /\ EndsWith(path, ".tmdl")

\* part.get("path", "")
PathOf(part) == Get(part, "path", "")

\* The decoded text of the payload of a part; None when the part has no
\* payload key (KeyError) or the payload cannot be decoded.
PayloadText(part) ==
    IF "payload" \notin DOMAIN part THEN None ELSE DecodePayload(part.payload)

\* IsVisibleTable without the test of isHidden.
IsVisibleTable_KeepsHidden(table) == ~IsNone(table)

\* `table and not table.get("isHidden", False)` for the parsed payload.
IsVisibleTable(table) == ~IsNone(table) /\ ~Get(Val(table), "isHidden", FALSE)

TableEntry(table) ==
    [name |-> Val(table).name, columns |-> Get(Val(table), "columns", <<>>)]

\* definition.get("parts", [])
Parts == Get(definition, "parts", <<>>)

InPartLoop == dpc = "loop" /\ k <= Len(Parts)

NextPart(newTables) ==
    /\ tables' = newTables
    /\ k' = k + 1
    /\ UNCHANGED <<definition, dpc, notDef>>

PartIgnored == InPartLoop /\ ~IsTablePath(PathOf(Parts[k])) /\ NextPart(tables)

PartRaises ==
    /\ InPartLoop /\ IsTablePath(PathOf(Parts[k]))
    /\ IsNone(PayloadText(Parts[k]))
    /\ dpc' = "raised"
    /\ UNCHANGED <<definition, k, tables, notDef>>

PartParsed ==
    /\ InPartLoop /\ IsTablePath(PathOf(Parts[k]))
    /\ LET payload == PayloadText(Parts[k]) IN
       /\ ~IsNone(payload)
       /\ LET table == parse_tmdl_table(Val(payload)) IN
          NextPart(IF IsVisibleTable(table) THEN Append(tables, TableEntry(table))
                   ELSE tables)

ReturnTables ==
    /\ dpc = "loop" /\ k > Len(Parts)
    /\ dpc' = "done"
    /\ UNCHANGED <<definition, k, tables, notDef>>

\* The payloads of the model: TMDL texts in base64, and two that cannot be
\* decoded (an incomplete last quad; the byte 0xFF).
VisibleText == "table A\n\tcolumn X\n\t\tdataType: int64\n"
HiddenTableText == "table B\n\tisHidden\n\tcolumn Y\n"
NoTableText == "model Model\n"
HiddenColumnText == "table C\n\tcolumn Z\n\t\tisHidden\n"

Encoded ==
    (VisibleText :> "dGFibGUgQQoJY29sdW1uIFgKCQlkYXRhVHlwZTogaW50NjQK")
    @@ (HiddenTableText :> "dGFibGUgQgoJaXNIaWRkZW4KCWNvbHVtbiBZCg==")
    @@ (NoTableText :> "bW9kZWwgTW9kZWwK")
    @@ (HiddenColumnText :> "dGFibGUgQwoJY29sdW1uIFoKCQlpc0hpZGRlbgo=")

Part(path, payload) == [path |-> path, payload |-> payload, payloadType |-> "InlineBase64"]

PartPool ==
    { Part("definition/tables/A.tmdl", Encoded[VisibleText]),
      Part("definition/tables/B.tmdl", Encoded[HiddenTableText]),
      Part("definition/tables/sub/C.tmdl", Encoded[HiddenColumnText]),
      Part("definition/tables/N.tmdl", Encoded[NoTableText]),
      Part("definition/model.tmdl", Encoded[VisibleText]),
      Part("definition/tables/A.json", Encoded[VisibleText]),
      Part("definition/tables/D.tmdl", "dGFibGUgVA"),
      Part("definition/tables/E.tmdl", "/w=="),
      [path |-> "definition/tables/F.tmdl"],
      [path |-> ".platform"],
      [payload |-> Encoded[VisibleText]] }

Definitions ==
    {EmptyDict} \cup { [parts |-> ps] : ps \in UNION { [1..m -> PartPool] : m \in 0..MaxParts } }

InitDef ==
    /\ definition \in Definitions
    /\ k = 1
    /\ tables = <<>>
    /\ dpc = "loop"
    /\ TmdlIdle /\ st = ParserStart
    /\ DaxIdle /\ TitleIdle /\ VisIdle /\ FlatIdle /\ SchemaIdle /\ PollIdle /\ TabIdle /\ DiscIdle

NextDef == PartIgnored \/ PartRaises \/ PartParsed \/ ReturnTables

SpecDef == InitDef /\ [][NextDef]_vars

---------------------------------------------------------------------------
(* What the claims say of a text, read off its lines without running the   *)
(* parser.                                                                 *)

MinOf(S) == CHOOSE n \in S : \A m \in S : n <= m
MaxOf(S) == CHOOSE n \in S : \A m \in S : n >= m

LineNumbers == 1..Len(lines)

Stripped(j) == Strip(lines[j])

IsTableLine(j) == StartsWith(Stripped(j), "table ")
IsColumnLine(j) == StartsWith(Stripped(j), "column ")
IsHiddenLine(j) == Stripped(j) = "isHidden"
IsChildLine(j) ==
    \E p \in {"measure ", "partition ", "hierarchy ", "annotation ", "calculationGroup"} :
        StartsWith(Stripped(j), p)

\* Column line c is still the pending column when line j is read.
PendingAt(c, j) ==
    /\ c < j /\ IsColumnLine(c)
    /\ \A m \in (c + 1)..(j - 1) : ~IsColumnLine(m) /\ ~IsChildLine(m)

MarkedHidden(c) == \E h \in LineNumbers : IsHiddenLine(h) /\ PendingAt(c, h)

\* s up to its first character ch (all of s when it has none).
BeforeFirst(s, ch) ==
    LET at == { n \in 1..Len(s) : Char(s, n) = ch } IN
    IF at = {} THEN s ELSE SubSeq(s, 1, MinOf(at) - 1)

\* s without the blanks and tabs around it.
Trimmed(s) ==
    LET solid == { n \in 1..Len(s) : Char(s, n) \notin {" ", "\t"} } IN
    IF solid = {} THEN "" ELSE SubSeq(s, MinOf(solid), MaxOf(solid))

\* body with each doubled quote, from the left, made one quote.
RECURSIVE Unescaped(_)
Unescaped(body) ==
    IF Len(body) = 0 THEN ""
    ELSE IF Len(body) >= 2 /\ SubSeq(body, 1, 2) = "''"
    THEN "'" \o Unescaped(SubSeq(body, 3, Len(body)))
    ELSE Char(body, 1) \o Unescaped(SubSeq(body, 2, Len(body)))

IsQuoted(n) == Len(n) >= 2 /\ Char(n, 1) = "'" /\ Char(n, Len(n)) = "'"
IsUnquoted(n) == Len(n) = 0 \/ Char(n, 1) # "'" \/ Char(n, Len(n)) # "'"

\* The quoting rule: the name a declared name part stands for.
QuotingRule(part, name) ==
    LET n == Trimmed(part) IN
    /\ IsQuoted(n) => name = Unescaped(SubSeq(n, 2, Len(n) - 1))
    /\ IsUnquoted(n) => name = n

\* The name parts of the declarations: what follows `table `, and what
\* follows `column ` up to the first `=`.
TableNamePart(j) == SubSeq(Stripped(j), 7, Len(Stripped(j)))
ColumnNamePart(j) == BeforeFirst(SubSeq(Stripped(j), 8, Len(Stripped(j))), "=")

DeclaredName(part) ==
    LET n == Trimmed(part) IN
    IF IsQuoted(n) THEN Unescaped(SubSeq(n, 2, Len(n) - 1)) ELSE n

\* The column lines that are to be in the result, in text order.
VisibleColumnLines ==
    SelectSeq([j \in LineNumbers |-> j],
              LAMBDA j : /\ IsColumnLine(j)
                         /\ DeclaredName(ColumnNamePart(j)) # ""
                         /\ ~MarkedHidden(j))

Returned == pc = "done" /\ ~IsNone(result)

ReturnedColumns == Val(result).columns

---------------------------------------------------------------------------
(* C1.  For every text that declares a table, the returned columns are     *)
(* exactly the declared columns with a non-empty name that are not marked  *)
(* hidden, in the order of their `column ` lines, one entry for each.      *)

C1_VisibleColumnsInOrder ==
    Returned =>
        /\ Len(ReturnedColumns) = Len(VisibleColumnLines)
        /\ \A n \in 1..Len(ReturnedColumns) :
               ReturnedColumns[n].name = DeclaredName(ColumnNamePart(VisibleColumnLines[n]))

\* A table whose text hides one column and keeps another.
C1_Witness ==
    /\ Returned
    /\ Len(ReturnedColumns) >= 1
    /\ \E c \in LineNumbers : IsColumnLine(c) /\ MarkedHidden(c)

---------------------------------------------------------------------------
(* C2.  The returned isHidden is true exactly when some bare `isHidden`    *)
(* line is read after a `table ` line and while no column is pending; an   *)
(* `isHidden` line inside a column, or before any table line, does not     *)
(* mark the table.                                                         *)

HidesTable(h) ==
    /\ IsHiddenLine(h)
    /\ \E t \in 1..(h - 1) : IsTableLine(t)
    /\ ~\E c \in 1..(h - 1) : PendingAt(c, h)

C2_TableHiddenIff ==
    Returned => (Val(result).isHidden <=> \E h \in LineNumbers : HidesTable(h))

\* A hidden table that also has a column line.
C2_Witness ==
    /\ Returned
    /\ Val(result).isHidden
    /\ \E c \in LineNumbers : IsColumnLine(c)

---------------------------------------------------------------------------
(* C5.  parse_tmdl_table returns None exactly when the text has no         *)
(* `table ` line; with one it returns a descriptor with the keys name,     *)
(* columns and isHidden, also when column lines come before the table      *)
(* line.                                                                   *)

C5_NoneIffNoTableLine ==
    pc = "done" =>
        /\ IsNone(result) <=> ~\E t \in LineNumbers : IsTableLine(t)
        /\ ~IsNone(result) => DOMAIN Val(result) = {"name", "columns", "isHidden"}

\* A descriptor returned for a text whose first column line precedes its
\* table line.
C5_Witness ==
    /\ Returned
    /\ \E c, t \in LineNumbers :
           /\ c < t /\ IsColumnLine(c) /\ IsTableLine(t)
           /\ \A u \in 1..c : ~IsTableLine(u)

---------------------------------------------------------------------------
(* C10.  As claimed: with more than one `table ` line in the text, only    *)
(* the first defines the returned name.  The code overwrites the name at   *)
(* every `table ` line.                                                    *)

TableLines == { t \in LineNumbers : IsTableLine(t) }

C10_FirstTableLineNames ==
    (Returned /\ Cardinality(TableLines) > 1) =>
        Val(result).name = DeclaredName(TableNamePart(MinOf(TableLines)))

\* C10, amended: with more than one `table ` line in the text, the last
\* one defines the returned name.
C10_LastTableLineNames ==
    (Returned /\ Cardinality(TableLines) > 1) =>
        Val(result).name = DeclaredName(TableNamePart(MaxOf(TableLines)))

\* Two table lines that declare different names.
C10_Witness ==
    /\ Returned
    /\ Cardinality(TableLines) > 1
    /\ DeclaredName(TableNamePart(MinOf(TableLines)))
         # DeclaredName(TableNamePart(MaxOf(TableLines)))

---------------------------------------------------------------------------
(* C7.  Name unquoting.  The name of a table declaration (what follows     *)
(* `table `) and of a column declaration (what follows `column ` up to the *)
(* first `=`), when it is surrounded by single quotes, becomes the text    *)
(* between the quotes with every doubled quote made one quote; an unquoted *)
(* name is kept verbatim, trimmed.  This holds of the name the parser      *)
(* holds right after the declaration line and of the names it returns.     *)

JustRead(j) == pc = "loop" /\ i = j + 1

---------------------------------------------------------------------------
(* C8.  Of a calculated-column declaration only what precedes the first    *)
(* `=` is the column name (then unquoted); the expression gives the column *)
(* no name, no type and no hidden flag: right after the declaration line   *)
(* the column has the declared name, the type String and is not hidden,    *)
(* and the returned descriptor is the one of the text with the expressions *)
(* cut off.                                                                *)

HasExpression(j) ==
    IsColumnLine(j) /\ \E n \in 1..Len(lines[j]) : Char(lines[j], n) = "="

WithoutExpressions ==
    Join([j \in LineNumbers |->
             IF HasExpression(j) THEN BeforeFirst(lines[j], "=") ELSE lines[j]])

C8_ExpressionIgnored ==
    /\ \A j \in LineNumbers :
           (JustRead(j) /\ HasExpression(j)) =>
               /\ st.in_column
               /\ st.col_name = Some(DeclaredName(ColumnNamePart(j)))
               /\ st.col_type = "String"
               /\ ~st.col_hidden
    /\ pc = "done" => result = parse_tmdl_table(WithoutExpressions)

\* A calculated column whose expression reads like a dataType property is
\* returned under its name, with the default type.
C8_Witness ==
    /\ Returned
    /\ \E j \in LineNumbers : HasExpression(j)
    /\ \E n \in 1..Len(ReturnedColumns) :
           ReturnedColumns[n] = [name |-> "C", dataType |-> "String"]


---------------------------------------------------------------------------
(* C6.  Every returned column has one of the six canonical types: the type *)
(* named by the last `dataType:` line read while the column was pending,   *)
(* looked up without regard to case, String for `binary` and for a token   *)
(* that is not known, and String for a column without a `dataType:` line,  *)
(* whatever type the column before it had.                                 *)

CanonicalTypes == {"String", "Int64", "Double", "Decimal", "Boolean", "DateTime"}

IsTypeLine(j) == StartsWith(Stripped(j), "dataType:")

TypeToken(j) == Trimmed(SubSeq(Stripped(j), 10, Len(Stripped(j))))

CanonicalOf(token) ==
    LET low == Lower(token) IN
    CASE low = "string" -> "String"
      [] low = "int64" -> "Int64"
      [] low = "double" -> "Double"
      [] low = "decimal" -> "Decimal"
      [] low = "boolean" -> "Boolean"
      [] low = "datetime" -> "DateTime"
      [] OTHER -> "String"

\* The type lines read while column line c is pending.
TypeLinesOf(c) == { t \in LineNumbers : IsTypeLine(t) /\ PendingAt(c, t) }

DeclaredType(c) ==
    IF TypeLinesOf(c) = {} THEN "String" ELSE CanonicalOf(TypeToken(MaxOf(TypeLinesOf(c))))

C6_CanonicalTypes ==
    Returned =>
        /\ Len(ReturnedColumns) = Len(VisibleColumnLines)
        /\ \A n \in 1..Len(ReturnedColumns) :
               /\ ReturnedColumns[n].dataType \in CanonicalTypes
               /\ ReturnedColumns[n].dataType = DeclaredType(VisibleColumnLines[n])

\* A column typed `dateTime` is followed by a column without a type line.
C6_Witness ==
    /\ Returned
    /\ Len(ReturnedColumns) = 2
    /\ ReturnedColumns[1].dataType = "DateTime"
    /\ ReturnedColumns[2].dataType = "String"
    /\ TypeLinesOf(VisibleColumnLines[2]) = {}

---------------------------------------------------------------------------
(* C9.  A line beginning with `measure `, `partition `, `hierarchy `,      *)
(* `annotation ` or `calculationGroup` ends the column context: reading it *)
(* commits the pending column under the commit rule and leaves no column   *)
(* pending; from then until the next `column ` line no step, the return    *)
(* included, changes the committed columns or opens a column.              *)

Committed(s) ==
    IF s.in_column /\ ~IsNone(s.col_name) /\ Val(s.col_name) # "" /\ ~s.col_hidden
    THEN Append(s.columns, [name |-> Val(s.col_name), dataType |-> s.col_type])
    ELSE s.columns

\* A child-object line precedes position j with no `column ` line between.
AfterChild(j) ==
    \E c \in 1..(j - 1) :
        /\ c <= Len(lines) /\ IsChildLine(c)
        /\ \A m \in (c + 1)..(j - 1) : ~IsColumnLine(m)

C9_ChildEndsColumn ==
    [][ /\ (InLoop /\ IsChildLine(i)) =>
               /\ st'.columns = Committed(st)
               /\ ~st'.in_column
               /\ IsNone(st'.col_name)
        /\ (pc = "loop" /\ AfterChild(i) /\ ~(i <= Len(lines) /\ IsColumnLine(i))) =>
               /\ st'.columns = st.columns
               /\ ~st'.in_column ]_vars

\* A column was committed by a child-object line, and an `isHidden` line
\* read after it left the column in place.
C9_Witness ==
    /\ pc = "loop" /\ i > 2
    /\ IsChildLine(i - 2) /\ IsHiddenLine(i - 1)
    /\ Len(st.columns) = 1


---------------------------------------------------------------------------
(* What the claims say of a definition, read off its parts.                *)

\* The text a payload is the base64 form of.
IsEncodedText(part) ==
    "payload" \in DOMAIN part /\ \E t \in DOMAIN Encoded : Encoded[t] = part.payload

PlainText(part) == CHOOSE t \in DOMAIN Encoded : Encoded[t] = part.payload

\* The path has the form definition/tables/<anything>.tmdl.
MatchesTablePattern(part) ==
    /\ "path" \in DOMAIN part
    /\ LET path == part.path IN
       /\ Len(path) >= Len("definition/tables/") + Len(".tmdl")
       /\ SubSeq(path, 1, Len("definition/tables/")) = "definition/tables/"
       /\ SubSeq(path, Len(path) - Len(".tmdl") + 1, Len(path)) = ".tmdl"

ParsedTable(part) == parse_tmdl_table(PlainText(part))

HasHiddenTable(part) ==
    IsEncodedText(part) /\ ~IsNone(ParsedTable(part)) /\ Val(ParsedTable(part)).isHidden

HasVisibleTable(part) ==
    IsEncodedText(part) /\ ~IsNone(ParsedTable(part)) /\ ~Val(ParsedTable(part)).isHidden

---------------------------------------------------------------------------
(* C3.  tables_from_definition never puts a hidden table in its output:    *)
(* the step that handles a part whose parsed table has isHidden = true     *)
(* leaves the output list as it is, whatever the path of the part.         *)

C3_HiddenTableExcluded ==
    [][ (InPartLoop /\ HasHiddenTable(Parts[k])) => tables' = tables ]_vars

\* A definition with a hidden table under a table path was handled to the
\* end, and its output holds another table.
C3_Witness ==
    /\ dpc = "done"
    /\ Len(tables) >= 1
    /\ \E n \in 1..Len(Parts) : MatchesTablePattern(Parts[n]) /\ HasHiddenTable(Parts[n])

---------------------------------------------------------------------------
(* C4.  The output of tables_from_definition holds, in the order of the    *)
(* parts, one entry with exactly the keys name and columns for each part   *)
(* handled so far whose path matches definition/tables/*.tmdl and whose    *)
(* payload parses to a present table that is not hidden; every other part  *)
(* adds nothing, whatever its content.                                     *)

ExpectedTables(ps) ==
    LET kept == SelectSeq(ps, LAMBDA part :
                    MatchesTablePattern(part) /\ HasVisibleTable(part)) IN
    [n \in 1..Len(kept) |->
        [name |-> Val(ParsedTable(kept[n])).name,
         columns |-> Val(ParsedTable(kept[n])).columns]]

C4_OnlyTablePartsInOrder ==
    dpc \in {"loop", "done", "raised"} =>
        /\ tables = ExpectedTables(SubSeq(Parts, 1, k - 1))
        /\ \A n \in 1..Len(tables) : DOMAIN tables[n] = {"name", "columns"}

\* Table C comes before table A in the output, as in the parts, and a part
\* outside the table pattern was passed over.
C4_Witness ==
    /\ dpc = "done"
    /\ Len(tables) = 2
    /\ tables[1].name = "C" /\ tables[2].name = "A"
    /\ \E n \in 1..Len(Parts) : ~MatchesTablePattern(Parts[n])


---------------------------------------------------------------------------
(* visual_query_builder.py works on decoded JSON.  A JSON value is a       *)
(* record with its Python type in t and, but for None, its content in v:   *)
(* a dict has its keys in insertion order in k and its items in v, a list  *)
(* is a sequence.                                                          *)

JStr(s) == [t |-> "str", v |-> s]
JInt(n) == [t |-> "int", v |-> n]
JBool(b) == [t |-> "bool", v |-> b]
JNone == [t |-> "NoneType"]
JList(seq) == [t |-> "list", v |-> seq]

\* The dict built by inserting the <<key, value>> pairs one after another:
\* a key that comes again keeps its place and takes the later value.
JDict(pairs) ==
    LET at(key) == { n \in 1..Len(pairs) : pairs[n][1] = key }
        first(n) == \A e \in 1..(n - 1) : pairs[e][1] # pairs[n][1]
        order == SelectSeq([n \in 1..Len(pairs) |-> n], first) IN
    [t |-> "dict",
     k |-> [n \in 1..Len(order) |-> pairs[order[n]][1]],
     v |-> [key \in { pairs[n][1] : n \in 1..Len(pairs) } |->
               pairs[CHOOSE n \in at(key) : \A e \in at(key) : e <= n][2]]]

JEmptyDict == JDict(<<>>)

\* What an expression evaluates to: a value, or the exception it raises.
Ok(x) == [ok |-> TRUE, v |-> x]
Raise(e) == [ok |-> FALSE, exc |-> e]

\* bool(x)
Falsy(x) ==
    CASE x.t = "NoneType" -> TRUE
      [] x.t = "bool" -> ~x.v
      [] x.t = "int" -> x.v = 0
      [] x.t = "str" -> x.v = ""
      [] x.t = "list" -> x.v = <<>>
      [] x.t = "dict" -> x.k = <<>>

\* x[key] with a str key
Item(x, key) ==
    CASE x.t = "dict" -> IF key \in DOMAIN x.v THEN Ok(x.v[key]) ELSE Raise("KeyError")
      [] OTHER -> Raise("TypeError")

\* x[0]
First(x) ==
    CASE x.t = "list" -> IF Len(x.v) > 0 THEN Ok(x.v[1]) ELSE Raise("IndexError")
      [] x.t = "str" -> IF Len(x.v) > 0 THEN Ok(JStr(Char(x.v, 1))) ELSE Raise("IndexError")
      [] x.t = "dict" -> Raise("KeyError")
      [] OTHER -> Raise("TypeError")

\* x[k1][k2]...[kn] with str keys, stopping at the first exception.
RECURSIVE Path(_, _)
Path(x, keys) ==
    IF Len(keys) = 0 THEN Ok(x)
    ELSE LET step == Item(x, Head(keys)) IN
         IF step.ok THEN Path(step.v, Tail(keys)) ELSE step

\* x.get(key, default)
GetOr(x, key, default) ==
    CASE x.t = "dict" -> Ok(IF key \in DOMAIN x.v THEN x.v[key] ELSE default)
      [] OTHER -> Raise("AttributeError")

\* key in x, for a str key
Contains(x, key) ==
    CASE x.t = "dict" -> Ok(key \in DOMAIN x.v)
      [] x.t = "list" -> Ok(\E n \in 1..Len(x.v) : x.v[n] = JStr(key))
      [] x.t = "str" -> Ok(FindFrom(x.v, key, 1) > 0)
      [] OTHER -> Raise("TypeError")

\* hash(x) is defined
Hashable(x) == x.t \notin {"list", "dict"}

Digits == "0123456789"

RECURSIVE NatToStr(_)
NatToStr(n) ==
    IF n < 10 THEN Char(Digits, n + 1)
    ELSE NatToStr(n \div 10) \o Char(Digits, (n % 10) + 1)

\* format(x, "") as an f-string field does it, for scalars.
Format(x) ==
    CASE x.t = "str" -> x.v
      [] x.t = "int" -> IF x.v < 0 THEN "-" \o NatToStr(-x.v) ELSE NatToStr(x.v)
      [] x.t = "bool" -> IF x.v THEN "True" ELSE "False"
      [] x.t = "NoneType" -> "None"

\* sep.join(ls)
RECURSIVE JoinWith(_, _)
JoinWith(sep, ls) ==
    IF Len(ls) = 0 THEN ""
    ELSE IF Len(ls) = 1 THEN ls[1]
    ELSE ls[1] \o sep \o JoinWith(sep, Tail(ls))


\* iter(x): the elements a for loop over x visits.
Elements(x) ==
    CASE x.t = "list" -> Ok(x.v)
      [] x.t = "dict" -> Ok([n \in 1..Len(x.k) |-> JStr(x.k[n])])
      [] x.t = "str" -> Ok([n \in 1..Len(x.v) |-> JStr(Char(x.v, n))])
      [] OTHER -> Raise("TypeError")

---------------------------------------------------------------------------
(* _prototype_to_dax                                                       *)

\* {f["Name"]: f["Entity"] for f in from_clauses}, as a function from the
\* alias values to the entity values.
\* AliasMapOf that keeps the entity of the first entry with an alias.
RECURSIVE AliasMapOf_FirstWins(_, _)
AliasMapOf_FirstWins(map, fs) ==
    IF Len(fs) = 0 THEN Ok(map)
    ELSE LET name == Item(Head(fs), "Name")
             entity == Item(Head(fs), "Entity") IN
         IF ~name.ok THEN name
         ELSE IF ~entity.ok THEN entity
         ELSE IF ~Hashable(name.v) THEN Raise("TypeError")
         ELSE AliasMapOf_FirstWins([a \in DOMAIN map \cup {name.v} |->
                                       IF a \in DOMAIN map THEN map[a] ELSE entity.v],
                                   Tail(fs))

RECURSIVE AliasMapOf(_, _)
AliasMapOf(map, fs) ==
    IF Len(fs) = 0 THEN Ok(map)
    ELSE LET name == Item(Head(fs), "Name")
             entity == Item(Head(fs), "Entity") IN
         IF ~name.ok THEN name
         ELSE IF ~entity.ok THEN entity
         ELSE IF ~Hashable(name.v) THEN Raise("TypeError")
         ELSE AliasMapOf([a \in DOMAIN map \cup {name.v} |->
                             IF a = name.v THEN entity.v ELSE map[a]],
                         Tail(fs))

alias_map_of(from_clauses) ==
    LET fs == Elements(from_clauses) IN
    IF fs.ok THEN AliasMapOf(EmptyDict, fs.v) ELSE fs

\* alias_map.get(source, source)
Resolve(alias_map, source) ==
    IF ~Hashable(source) THEN Raise("TypeError")
    ELSE Ok(IF source \in DOMAIN alias_map THEN alias_map[source] ELSE source)

AGG_FUNCS == [id \in 0..4 |-> <<"SUM", "AVG", "COUNT", "MIN", "MAX">>[id + 1]]

\* agg_of with COUNT for an id that is not known.
agg_of_CountByDefault(func_id) ==
    IF ~Hashable(func_id) THEN Raise("TypeError")
    ELSE Ok(CASE func_id.t = "int" /\ func_id.v \in DOMAIN AGG_FUNCS -> AGG_FUNCS[func_id.v]
              [] func_id.t = "bool" -> AGG_FUNCS[IF func_id.v THEN 1 ELSE 0]
              [] OTHER -> "COUNT")

\* agg_funcs.get(func_id, "SUM"); True and False are the keys 1 and 0.
agg_of(func_id) ==
    IF ~Hashable(func_id) THEN Raise("TypeError")
    ELSE Ok(CASE func_id.t = "int" /\ func_id.v \in DOMAIN AGG_FUNCS -> AGG_FUNCS[func_id.v]
              [] func_id.t = "bool" -> AGG_FUNCS[IF func_id.v THEN 1 ELSE 0]
              [] OTHER -> "SUM")

NoFields == [columns |-> <<>>, measures |-> <<>>]

\* The branches of the loop over select_clauses.
OnColumn(acc, alias_map, sel) ==
    LET source == Path(sel, <<"Column", "Expression", "SourceRef", "Source">>)
        entity == Resolve(alias_map, source.v)
        prop == Path(sel, <<"Column", "Property">>) IN
    IF ~source.ok THEN source
    ELSE IF ~entity.ok THEN entity
    ELSE IF ~prop.ok THEN prop
    ELSE Ok([acc EXCEPT !.columns =
                Append(@, "'" \o Format(entity.v) \o "'[" \o Format(prop.v) \o "]")])

OnMeasure(acc, alias_map, sel) ==
    LET source == Path(sel, <<"Measure", "Expression", "SourceRef", "Source">>)
        prop == Path(sel, <<"Measure", "Property">>) IN
    IF ~source.ok THEN source
    ELSE IF ~prop.ok THEN prop
    ELSE Ok([acc EXCEPT !.measures =
                Append(@, <<"\"" \o Format(prop.v) \o "\"", "[" \o Format(prop.v) \o "]">>)])

OnAggregation(acc, alias_map, sel) ==
    LET source == Path(sel, <<"Aggregation", "Expression", "Column", "Expression",
                             "SourceRef", "Source">>)
        entity == Resolve(alias_map, source.v)
        prop == Path(sel, <<"Aggregation", "Expression", "Column", "Property">>)
        func_id == GetOr(Item(sel, "Aggregation").v, "Function", JInt(0))
        agg == agg_of(func_id.v) IN
    IF ~source.ok THEN source
    ELSE IF ~entity.ok THEN entity
    ELSE IF ~prop.ok THEN prop
    ELSE IF ~agg.ok THEN agg
    ELSE Ok([acc EXCEPT !.measures =
                Append(@, <<"\"" \o agg.v \o " of " \o Format(prop.v) \o "\"",
                            agg.v \o "('" \o Format(entity.v) \o "'[" \o Format(prop.v) \o "])">>)])

\* One iteration of the loop.
OnSelect(acc, alias_map, sel) ==
    LET column == Contains(sel, "Column")
        measure == Contains(sel, "Measure")
        aggregation == Contains(sel, "Aggregation") IN
    IF ~column.ok THEN column
    ELSE IF column.v THEN OnColumn(acc, alias_map, sel)
    ELSE IF measure.v THEN OnMeasure(acc, alias_map, sel)
    ELSE IF aggregation.v THEN OnAggregation(acc, alias_map, sel)
    ELSE Ok(acc)

RECURSIVE SelectLoop(_, _, _)
SelectLoop(acc, alias_map, sels) ==
    IF Len(sels) = 0 THEN Ok(acc)
    ELSE LET next == OnSelect(acc, alias_map, Head(sels)) IN
         IF next.ok THEN SelectLoop(next.v, alias_map, Tail(sels)) ELSE next

\* ", ".join(f"{name}, {expr}" for name, expr in measures)
measure_parts_of(measures) ==
    JoinWith(", ", [n \in 1..Len(measures) |-> measures[n][1] \o ", " \o measures[n][2]])

\* DaxOf that treats a card as any other visual.
DaxOf_CardAsOthers(fields, vtype) ==
    LET col_refs == JoinWith(", ", fields.columns)
        measure_parts == measure_parts_of(fields.measures) IN
    IF fields.columns = <<>> /\ fields.measures # <<>>
    THEN Some("EVALUATE ROW(" \o measure_parts \o ")")
    ELSE IF col_refs # "" /\ measure_parts # ""
    THEN Some("EVALUATE SUMMARIZECOLUMNS(" \o col_refs \o ", " \o measure_parts \o ")")
    ELSE IF col_refs # ""
    THEN Some("EVALUATE DISTINCT(" \o col_refs \o ")")
    ELSE None

\* DaxOf that lists the measure pairs before the column refs.
DaxOf_MeasuresFirst(fields, vtype) ==
    LET col_refs == JoinWith(", ", fields.columns)
        measure_parts == measure_parts_of(fields.measures) IN
    IF vtype = JStr("card") \/ (fields.columns = <<>> /\ fields.measures # <<>>)
    THEN IF measure_parts # "" THEN Some("EVALUATE ROW(" \o measure_parts \o ")") ELSE None
    ELSE IF col_refs # "" /\ measure_parts # ""
    THEN Some("EVALUATE SUMMARIZECOLUMNS(" \o measure_parts \o ", " \o col_refs \o ")")
    ELSE IF col_refs # ""
    THEN Some("EVALUATE DISTINCT(" \o col_refs \o ")")
    ELSE None

\* DaxOf that evaluates DISTINCT also when there is no column.
DaxOf_EmptyDistinct(fields, vtype) ==
    LET col_refs == JoinWith(", ", fields.columns)
        measure_parts == measure_parts_of(fields.measures) IN
    IF vtype = JStr("card") \/ (fields.columns = <<>> /\ fields.measures # <<>>)
    THEN IF measure_parts # "" THEN Some("EVALUATE ROW(" \o measure_parts \o ")") ELSE None
    ELSE IF col_refs # "" /\ measure_parts # ""
    THEN Some("EVALUATE SUMMARIZECOLUMNS(" \o col_refs \o ", " \o measure_parts \o ")")
    ELSE Some("EVALUATE DISTINCT(" \o col_refs \o ")")

\* What follows the loop.
DaxOf(fields, vtype) ==
    LET col_refs == JoinWith(", ", fields.columns)
        measure_parts == measure_parts_of(fields.measures) IN
    IF vtype = JStr("card") \/ (fields.columns = <<>> /\ fields.measures # <<>>)
    THEN IF measure_parts # "" THEN Some("EVALUATE ROW(" \o measure_parts \o ")") ELSE None
    ELSE IF col_refs # "" /\ measure_parts # ""
    THEN Some("EVALUATE SUMMARIZECOLUMNS(" \o col_refs \o ", " \o measure_parts \o ")")
    ELSE IF col_refs # ""
    THEN Some("EVALUATE DISTINCT(" \o col_refs \o ")")
    ELSE None

\* prototype_to_dax that returns early for a falsy Select only.
prototype_to_dax_SelectOnly(p, vtype) ==
    LET from_clauses == GetOr(p, "From", JList(<<>>))
        select_clauses == GetOr(p, "Select", JList(<<>>)) IN
    IF ~from_clauses.ok THEN from_clauses
    ELSE IF Falsy(select_clauses.v) THEN Ok(None)
    ELSE LET alias_map == alias_map_of(from_clauses.v)
             sels == Elements(select_clauses.v)
             fields == SelectLoop(NoFields, alias_map.v, sels.v) IN
         IF ~alias_map.ok THEN alias_map
         ELSE IF ~sels.ok THEN sels
         ELSE IF ~fields.ok THEN fields
         ELSE Ok(DaxOf(fields.v, vtype))

\* _prototype_to_dax(proto, visual_type): Ok(None), Ok(Some(query)) or the
\* exception raised.
prototype_to_dax(p, vtype) ==
    LET from_clauses == GetOr(p, "From", JList(<<>>))
        select_clauses == GetOr(p, "Select", JList(<<>>)) IN
    IF ~from_clauses.ok THEN from_clauses
    ELSE IF Falsy(from_clauses.v) \/ Falsy(select_clauses.v) THEN Ok(None)
    ELSE LET alias_map == alias_map_of(from_clauses.v)
             sels == Elements(select_clauses.v)
             fields == SelectLoop(NoFields, alias_map.v, sels.v) IN
         IF ~alias_map.ok THEN alias_map
         ELSE IF ~sels.ok THEN sels
         ELSE IF ~fields.ok THEN fields
         ELSE Ok(DaxOf(fields.v, vtype))


---------------------------------------------------------------------------
(* _infer_columns_from_proto                                               *)

\* InferColumn that puts the new column first.
InferColumn_Prepend(cols, name, dataType) ==
    <<[name |-> name, dataType |-> dataType]>> \o cols

InferColumn(cols, name, dataType) == Append(cols, [name |-> name, dataType |-> dataType])

\* One iteration of the loop over proto.get("Select", []).
OnInfer(cols, sel) ==
    LET column == Contains(sel, "Column")
        measure == Contains(sel, "Measure")
        aggregation == Contains(sel, "Aggregation") IN
    IF ~column.ok THEN column
    ELSE IF column.v
    THEN LET prop == Path(sel, <<"Column", "Property">>) IN
         IF prop.ok THEN Ok(InferColumn(cols, prop.v, "String")) ELSE prop
    ELSE IF measure.v
    THEN LET prop == Path(sel, <<"Measure", "Property">>) IN
         IF prop.ok THEN Ok(InferColumn(cols, prop.v, "Double")) ELSE prop
    ELSE IF aggregation.v
    THEN LET prop == Path(sel, <<"Aggregation", "Expression", "Column", "Property">>)
             func_id == GetOr(Item(sel, "Aggregation").v, "Function", JInt(0))
             agg == agg_of(func_id.v) IN
         IF ~prop.ok THEN prop
         ELSE IF ~agg.ok THEN agg
         ELSE Ok(InferColumn(cols, JStr(agg.v \o " of " \o Format(prop.v)), "Double"))
    ELSE Ok(cols)

RECURSIVE InferLoop(_, _)
InferLoop(cols, sels) ==
    IF Len(sels) = 0 THEN Ok(cols)
    ELSE LET next == OnInfer(cols, Head(sels)) IN
         IF next.ok THEN InferLoop(next.v, Tail(sels)) ELSE next

\* _infer_columns_from_proto(proto): Ok(list of columns) or the exception
\* raised.  The alias map is built, and may raise, though it is not used.
infer_columns_from_proto(p) ==
    LET from_clauses == GetOr(p, "From", JList(<<>>))
        alias_map == alias_map_of(from_clauses.v)
        select_clauses == GetOr(p, "Select", JList(<<>>))
        sels == Elements(select_clauses.v) IN
    IF ~from_clauses.ok THEN from_clauses
    ELSE IF ~alias_map.ok THEN alias_map
    ELSE IF ~sels.ok THEN sels
    ELSE InferLoop(<<>>, sels.v)


---------------------------------------------------------------------------
(* The prototype queries the two functions are called with.                *)

MaxSelect == 3
MaxAggSelect == 2

from_clause(alias, entity) == JDict(<< <<"Name", JStr(alias)>>, <<"Entity", JStr(entity)>> >>)

source_ref(alias) ==
    JDict(<< <<"SourceRef", JDict(<< <<"Source", JStr(alias)>> >>)>> >>)

column_ref(alias, prop) ==
    JDict(<< <<"Expression", source_ref(alias)>>, <<"Property", JStr(prop)>> >>)

col_select(alias, prop) ==
    JDict(<< <<"Column", column_ref(alias, prop)>>, <<"Name", JStr("E." \o prop)>> >>)

measure_select(alias, prop) ==
    JDict(<< <<"Measure", column_ref(alias, prop)>>, <<"Name", JStr("M." \o prop)>> >>)

agg_select(alias, prop, func) ==
    JDict(<< <<"Aggregation",
               JDict(<< <<"Expression", JDict(<< <<"Column", column_ref(alias, prop)>> >>)>> >>
                     \o func)>>,
             <<"Name", JStr("A." \o prop)>> >>)

Function(id) == << <<"Function", JInt(id)>> >>
NoFunction == <<>>

\* A Select entry with none of the three keys, and one whose Column has no
\* nested keys.
other_select == JDict(<< <<"Name", JStr("E.x")>> >>)
broken_select == JDict(<< <<"Column", JEmptyDict>> >>)

make_proto(from_clauses, select_clauses) ==
    JDict(<< <<"Version", JInt(2)>> >> \o from_clauses \o select_clauses)

SeqsUpTo(pool, n) == UNION { [1..m -> pool] : m \in 0..n }

\* From: missing, empty, one alias, two aliases, one alias twice, and an
\* entry without Entity.
FromPool ==
    { <<>>,
      << <<"From", JList(<<>>)>> >>,
      << <<"From", JList(<<from_clause("t", "TableA")>>)>> >>,
      << <<"From", JList(<<from_clause("t", "TableA"), from_clause("u", "TableB")>>)>> >>,
      << <<"From", JList(<<from_clause("t", "TableA"), from_clause("t", "TableB")>>)>> >>,
      << <<"From", JList(<<JDict(<< <<"Name", JStr("t")>> >>)>>)>> >> }

SelectPool ==
    { col_select("t", "Col1"), col_select("u", "Col2"),
      measure_select("t", "M1"), measure_select("t", "M2"),
      agg_select("t", "Amount", Function(0)),
      other_select, broken_select }

FunctionPool == { Function(id) : id \in {0, 1, 2, 3, 4, 7} } \cup {NoFunction}

AggSelectPool ==
    { agg_select(alias, "Amount", func) : alias \in {"t", "x"}, func \in FunctionPool }
    \cup { col_select("t", "Col1"), col_select("x", "Col2") }

\* Select: missing, or a list of entries.
SelectsOf(pool, n) ==
    { <<>> } \cup { << <<"Select", JList(sels)>> >> : sels \in SeqsUpTo(pool, n) }

ProtosOf(pool, n) ==
    { make_proto(f, s) : f \in FromPool, s \in SelectsOf(pool, n) }

VisualTypes == { JStr("card"), JStr("barChart") }

---------------------------------------------------------------------------
(* _prototype_to_dax and _infer_columns_from_proto, each called once with  *)
(* the same prototype query.                                               *)

PrototypeToDax ==
    /\ dax_pc = "call"
    /\ LET r == prototype_to_dax(proto, visual_type) IN
       /\ r.ok
       /\ dax' = r.v
       /\ dax_pc' = "done"
    /\ UNCHANGED <<proto, visual_type, inferred, infer_pc, notDax>>

PrototypeToDaxRaises ==
    /\ dax_pc = "call"
    /\ ~prototype_to_dax(proto, visual_type).ok
    /\ dax_pc' = "raised"
    /\ UNCHANGED <<proto, visual_type, dax, inferred, infer_pc, notDax>>

InferColumns ==
    /\ infer_pc = "call"
    /\ LET r == infer_columns_from_proto(proto) IN
       /\ r.ok
       /\ inferred' = Some(r.v)
       /\ infer_pc' = "done"
    /\ UNCHANGED <<proto, visual_type, dax, dax_pc, notDax>>

InferColumnsRaises ==
    /\ infer_pc = "call"
    /\ ~infer_columns_from_proto(proto).ok
    /\ infer_pc' = "raised"
    /\ UNCHANGED <<proto, visual_type, dax, dax_pc, inferred, notDax>>

InitDax(protos) ==
    /\ proto \in protos
    /\ visual_type \in VisualTypes
    /\ dax = None /\ dax_pc = "call"
    /\ inferred = None /\ infer_pc = "call"
    /\ TmdlIdle /\ st = ParserStart
    /\ DefIdle /\ TitleIdle /\ VisIdle /\ FlatIdle /\ SchemaIdle /\ PollIdle /\ TabIdle /\ DiscIdle

NextDax == PrototypeToDax \/ PrototypeToDaxRaises \/ InferColumns \/ InferColumnsRaises

SpecDax == InitDax(ProtosOf(SelectPool, MaxSelect)) /\ [][NextDax]_vars

SpecAgg == InitDax(ProtosOf(AggSelectPool, MaxAggSelect)) /\ [][NextDax]_vars


---------------------------------------------------------------------------
(* What the claims say of a prototype query, read off its From and Select. *)

HasKey(x, key) == x.t = "dict" /\ key \in DOMAIN x.v

\* The list under a key of the prototype, empty when the key is missing.
ClauseList(key) == IF HasKey(proto, key) THEN proto.v[key].v ELSE <<>>

FromList == ClauseList("From")
SelectList == ClauseList("Select")

HasClauses == FromList # <<>> /\ SelectList # <<>>

\* The three kinds of Select entry, by the key that is present.
IsColumnSel(sel) == HasKey(sel, "Column")
IsMeasureSel(sel) == ~HasKey(sel, "Column") /\ HasKey(sel, "Measure")
IsAggSel(sel) ==
    ~HasKey(sel, "Column") /\ ~HasKey(sel, "Measure") /\ HasKey(sel, "Aggregation")
IsPairSel(sel) == IsMeasureSel(sel) \/ IsAggSel(sel)

\* The column a Column or Aggregation entry refers to, and its parts.
RefOf(sel) ==
    IF IsColumnSel(sel) THEN sel.v["Column"]
    ELSE IF IsMeasureSel(sel) THEN sel.v["Measure"]
    ELSE sel.v["Aggregation"].v["Expression"].v["Column"]

AliasOf(sel) == RefOf(sel).v["Expression"].v["SourceRef"].v["Source"].v
PropertyOf(sel) == RefOf(sel).v["Property"].v

\* The entity the From clause gives an alias: that of the last entry with
\* the alias, the alias itself when there is none.
EntityOf(alias) ==
    LET named == { n \in 1..Len(FromList) : FromList[n].v["Name"].v = alias } IN
    IF named = {} THEN alias ELSE FromList[MaxOf(named)].v["Entity"].v

\* The function name of an Aggregation entry.
FuncOf(sel) ==
    LET a == sel.v["Aggregation"] IN
    IF ~HasKey(a, "Function") THEN "SUM"
    ELSE CASE a.v["Function"] = JInt(0) -> "SUM"
           [] a.v["Function"] = JInt(1) -> "AVG"
           [] a.v["Function"] = JInt(2) -> "COUNT"
           [] a.v["Function"] = JInt(3) -> "MIN"
           [] a.v["Function"] = JInt(4) -> "MAX"
           [] OTHER -> "SUM"

ColumnRefText(sel) == "'" \o EntityOf(AliasOf(sel)) \o "'[" \o PropertyOf(sel) \o "]"

PairName(sel) ==
    IF IsMeasureSel(sel) THEN PropertyOf(sel)
    ELSE FuncOf(sel) \o " of " \o PropertyOf(sel)

PairExpr(sel) ==
    IF IsMeasureSel(sel) THEN "[" \o PropertyOf(sel) \o "]"
    ELSE FuncOf(sel) \o "(" \o ColumnRefText(sel) \o ")"

PairText(sel) == "\"" \o PairName(sel) \o "\", " \o PairExpr(sel)

ColumnSels == SelectSeq(SelectList, IsColumnSel)
PairSels == SelectSeq(SelectList, IsPairSel)

ColumnRefs == JoinWith(", ", [n \in 1..Len(ColumnSels) |-> ColumnRefText(ColumnSels[n])])
Pairs == JoinWith(", ", [n \in 1..Len(PairSels) |-> PairText(PairSels[n])])

IsCard == visual_type = JStr("card")

DaxReturned == dax_pc = "done" /\ HasClauses

---------------------------------------------------------------------------
(* C12.  With From and Select not empty: for a card, and for any visual    *)
(* whose Select has no Column entry and at least one Measure or            *)
(* Aggregation entry, the query is EVALUATE ROW(...) over all the          *)
(* name/expression pairs in Select order; a card without a pair gets no    *)
(* query.                                                                  *)

C12_RowQuery ==
    (DaxReturned /\ (IsCard \/ (ColumnSels = <<>> /\ PairSels # <<>>))) =>
        dax = IF PairSels # <<>> THEN Some("EVALUATE ROW(" \o Pairs \o ")") ELSE None

\* A card with a column and two pairs is given a ROW query.
C12_Witness ==
    /\ DaxReturned /\ IsCard
    /\ Len(ColumnSels) = 1 /\ Len(PairSels) = 2
    /\ ~IsNone(dax)

---------------------------------------------------------------------------
(* C13.  For a visual that is not a card and whose Select has a Column and *)
(* a Measure or Aggregation entry, the query is EVALUATE                   *)
(* SUMMARIZECOLUMNS(...) with all the column refs in Select order, then    *)
(* all the pairs in Select order, however they stand among each other in   *)
(* Select.                                                                 *)

C13_SummarizeQuery ==
    (DaxReturned /\ ~IsCard /\ ColumnSels # <<>> /\ PairSels # <<>>) =>
        dax = Some("EVALUATE SUMMARIZECOLUMNS(" \o ColumnRefs \o ", " \o Pairs \o ")")

\* A measure stands between two columns in Select.
C13_Witness ==
    /\ DaxReturned /\ ~IsCard
    /\ Len(SelectList) = 3
    /\ IsColumnSel(SelectList[1]) /\ IsPairSel(SelectList[2]) /\ IsColumnSel(SelectList[3])
    /\ ~IsNone(dax)

---------------------------------------------------------------------------
(* C14.  For a visual that is not a card: with Column entries only the     *)
(* query is EVALUATE DISTINCT(...) over the column refs; with neither a    *)
(* Column nor a Measure or Aggregation entry there is no query.            *)

C14_DistinctQuery ==
    (DaxReturned /\ ~IsCard /\ PairSels = <<>>) =>
        dax = IF ColumnSels # <<>> THEN Some("EVALUATE DISTINCT(" \o ColumnRefs \o ")")
              ELSE None

\* Select entries that have none of the three keys give no query.
C14_Witness ==
    /\ DaxReturned /\ ~IsCard
    /\ ColumnSels = <<>> /\ PairSels = <<>>
    /\ IsNone(dax)


---------------------------------------------------------------------------
(* C16.  An Aggregation entry is rendered with SUM, AVG, COUNT, MIN, MAX   *)
(* for the function ids 0 to 4 and with SUM for a missing or another id,   *)
(* as the name "<FUNC> of <Property>" and the expression                   *)
(* <FUNC>('Entity'[Property]); _infer_columns_from_proto gives the same    *)
(* entry the same name.                                                    *)

\* The query the claims describe for the prototype and the visual type.
ExpectedQuery ==
    IF IsCard \/ (ColumnSels = <<>> /\ PairSels # <<>>)
    THEN IF PairSels # <<>> THEN Some("EVALUATE ROW(" \o Pairs \o ")") ELSE None
    ELSE IF ColumnSels # <<>> /\ PairSels # <<>>
    THEN Some("EVALUATE SUMMARIZECOLUMNS(" \o ColumnRefs \o ", " \o Pairs \o ")")
    ELSE IF ColumnSels # <<>> THEN Some("EVALUATE DISTINCT(" \o ColumnRefs \o ")")
    ELSE None

\* The place in the inferred list of the Select entry at n.
InferIndex(n) ==
    Cardinality({ e \in 1..n : IsColumnSel(SelectList[e]) \/ IsPairSel(SelectList[e]) })

C16_AggregationRendering ==
    \A n \in 1..Len(SelectList) :
        IsAggSel(SelectList[n]) =>
            /\ DaxReturned =>
                   /\ dax = ExpectedQuery
                   /\ FindFrom(Val(dax), PairText(SelectList[n]), 1) > 0
            /\ infer_pc = "done" =>
                   Val(inferred)[InferIndex(n)].name = JStr(PairName(SelectList[n]))

\* An aggregation with the function id 3 and one with an id that is not
\* known, both rendered and both inferred.
C16_Witness ==
    /\ DaxReturned /\ infer_pc = "done"
    /\ Len(SelectList) = 2
    /\ IsAggSel(SelectList[1]) /\ IsAggSel(SelectList[2])
    /\ Item(SelectList[1].v["Aggregation"], "Function") = Ok(JInt(3))
    /\ Item(SelectList[2].v["Aggregation"], "Function") = Ok(JInt(7))
    /\ FindFrom(Val(dax), "\"MIN of Amount\", MIN(", 1) > 0
    /\ Val(inferred)[2].name = JStr("SUM of Amount")

---------------------------------------------------------------------------
(* C17.  Alias resolution.  Every Column and Aggregation reference of the  *)
(* query names the entity the From clause gives its alias, an alias that   *)
(* From does not have is rendered as it is and raises nothing, and of two  *)
(* From entries with one alias the later gives the entity; no other entity *)
(* is named in the query.                                                  *)

FromWellFormed ==
    \A n \in 1..Len(FromList) : HasKey(FromList[n], "Name") /\ HasKey(FromList[n], "Entity")

\* The Select entries whose column ref is part of the query.
IsRendered(sel) ==
    IsAggSel(sel) \/ (IsColumnSel(sel) /\ ~IsCard /\ ColumnSels # <<>>)

NamesInUse ==
    { AliasOf(SelectList[n]) : n \in 1..Len(SelectList) }
    \cup { FromList[n].v["Name"].v : n \in 1..Len(FromList) }
    \cup { FromList[n].v["Entity"].v : n \in 1..Len(FromList) }

C17_AliasResolution ==
    /\ (dax_pc \in {"done", "raised"} /\ FromWellFormed) => dax_pc = "done"
    /\ (DaxReturned /\ ~IsNone(dax)) =>
           /\ \A n \in 1..Len(SelectList) :
                  IsRendered(SelectList[n]) =>
                      FindFrom(Val(dax), ColumnRefText(SelectList[n]), 1) > 0
           /\ \A name \in NamesInUse :
                  FindFrom(Val(dax), "'" \o name \o "'[", 1) > 0 =>
                      \E n \in 1..Len(SelectList) :
                          /\ IsRendered(SelectList[n])
                          /\ EntityOf(AliasOf(SelectList[n])) = name

\* The alias t stands twice in From; the query has a reference with t and
\* one with an alias that From does not have.
C17_Witness ==
    /\ DaxReturned /\ ~IsNone(dax) /\ ~IsCard
    /\ Len(FromList) = 2
    /\ FromList[1].v["Name"] = FromList[2].v["Name"]
    /\ FromList[1].v["Entity"] # FromList[2].v["Entity"]
    /\ \E a, b \in 1..Len(SelectList) :
           /\ IsRendered(SelectList[a]) /\ AliasOf(SelectList[a]) = "t"
           /\ IsRendered(SelectList[b]) /\ AliasOf(SelectList[b]) = "x"

---------------------------------------------------------------------------
(* C18.  _infer_columns_from_proto returns one entry for each Select entry *)
(* with a Column, Measure or Aggregation key, in Select order: the         *)
(* property and String for a Column, the property and Double for a         *)
(* Measure, "<FUNC> of <Property>" and Double for an Aggregation; it does  *)
(* so also when _prototype_to_dax gives no query.                          *)

FieldSels == SelectSeq(SelectList, LAMBDA sel : IsColumnSel(sel) \/ IsPairSel(sel))

ExpectedColumn(sel) ==
    IF IsColumnSel(sel) THEN [name |-> JStr(PropertyOf(sel)), dataType |-> "String"]
    ELSE [name |-> JStr(PairName(sel)), dataType |-> "Double"]

C18_InferredInSelectOrder ==
    infer_pc = "done" =>
        Val(inferred) = [n \in 1..Len(FieldSels) |-> ExpectedColumn(FieldSels[n])]

\* A measure before a column, inferred in that order for a prototype that
\* gives no query.
C18_Witness ==
    /\ infer_pc = "done" /\ dax_pc = "done" /\ IsNone(dax)
    /\ Len(Val(inferred)) >= 2
    /\ Val(inferred)[1].dataType = "Double"
    /\ Val(inferred)[2].dataType = "String"


---------------------------------------------------------------------------
(* _extract_title                                                          *)

\* str.strip(chars) for a single character.
RECURSIVE StripChar(_, _)
StripChar(s, c) ==
    IF Len(s) > 0 /\ Char(s, 1) = c THEN StripChar(From(s, 1), c)
    ELSE IF Len(s) > 0 /\ Char(s, Len(s)) = c THEN StripChar(SubSeq(s, 1, Len(s) - 1), c)
    ELSE s

\* x.strip("'")
StripQuotes(x) ==
    CASE x.t = "str" -> Ok(JStr(StripChar(x.v, "'")))
      [] OTHER -> Raise("AttributeError")

\* The body of the try block.
TitleLiteral(sv) ==
    LET titles == Path(sv, <<"objects", "title">>)
        first == First(titles.v)
        title_props == Item(first.v, "properties")
        value == Path(title_props.v, <<"text", "expr", "Literal", "Value">>) IN
    IF ~titles.ok THEN titles
    ELSE IF ~first.ok THEN first
    ELSE IF ~title_props.ok THEN title_props
    ELSE IF ~value.ok THEN value
    ELSE StripQuotes(value.v)

\* _extract_title(single_visual): KeyError, IndexError and TypeError give "".
extract_title(sv) ==
    LET r == TitleLiteral(sv) IN
    IF ~r.ok /\ r.exc \in {"KeyError", "IndexError", "TypeError"} THEN Ok(JStr("")) ELSE r

\* The single visuals _extract_title is called with: the path to the title
\* literal, cut short at every depth by a value of each type.
RECURSIVE Under(_, _)
Under(keys, x) ==
    IF Len(keys) = 0 THEN x
    ELSE JDict(<< <<Head(keys), Under(Tail(keys), x)>> >>)

KeysToTitle == <<"objects", "title">>
KeysToValue == <<"properties", "text", "expr", "Literal", "Value">>

\* The single visual with x at depth d of the path.
SingleVisualAt(d, x) ==
    IF d <= Len(KeysToTitle) THEN Under(SubSeq(KeysToTitle, 1, d), x)
    ELSE Under(KeysToTitle,
               JList(<<Under(SubSeq(KeysToValue, 1, d - Len(KeysToTitle) - 1), x)>>))

PathDepths == 1..(Len(KeysToTitle) + 1 + Len(KeysToValue))

LeafValues ==
    { JStr("'Sales'"), JStr("Sales"), JStr("''O''Hara's'"), JStr("''"), JStr(""),
      JNone, JInt(5), JBool(TRUE), JList(<<>>), JList(<<JStr("'Sales'")>>), JEmptyDict }

SingleVisuals == {JEmptyDict} \cup { SingleVisualAt(d, x) : d \in PathDepths, x \in LeafValues }

ExtractTitle ==
    /\ title_pc = "call"
    /\ LET r == extract_title(single_visual) IN
       /\ r.ok
       /\ title' = Some(r.v)
       /\ title_pc' = "done"
    /\ UNCHANGED <<single_visual, notTitle>>

ExtractTitleRaises ==
    /\ title_pc = "call"
    /\ ~extract_title(single_visual).ok
    /\ title_pc' = "raised"
    /\ UNCHANGED <<single_visual, title, notTitle>>

InitTitle ==
    /\ single_visual \in SingleVisuals
    /\ title = None /\ title_pc = "call"
    /\ TmdlIdle /\ st = ParserStart
    /\ DefIdle /\ DaxIdle /\ VisIdle /\ FlatIdle /\ SchemaIdle /\ PollIdle /\ TabIdle /\ DiscIdle

NextTitle == ExtractTitle \/ ExtractTitleRaises

SpecTitle == InitTitle /\ [][NextTitle]_vars


---------------------------------------------------------------------------
(* C19.  As claimed: _extract_title never fails; it returns the literal at *)
(* objects.title[0].properties.text.expr.Literal.Value without the single  *)
(* quotes around it, and the empty string when a key is missing, the list  *)
(* is empty or a value on the path, the final Value included, has the      *)
(* wrong type.  The code calls strip on a Value of any type.               *)

\* The value at the end of the path, when the path leads to one.
LiteralValue(sv) ==
    LET titles == Path(sv, KeysToTitle)
        first == IF titles.ok THEN First(titles.v) ELSE titles IN
    IF first.ok THEN Path(first.v, KeysToValue) ELSE first

ClaimedTitle(sv) ==
    LET value == LiteralValue(sv) IN
    IF value.ok /\ value.v.t = "str" THEN StripChar(value.v.v, "'") ELSE ""

C19_TitleNeverFails ==
    title_pc \in {"done", "raised"} =>
        /\ title_pc = "done"
        /\ title = Some(JStr(ClaimedTitle(single_visual)))


---------------------------------------------------------------------------
(* json.loads, on the JSON texts of reports: objects, arrays, strings with *)
(* the escapes \" \\ \/ \n \r \t \f, integers, true, false and null.       *)

JsonWhitespace == {" ", "\t", "\n", "\r"}

\* The character of s at position n, "" beyond its ends.
At(s, n) == IF n >= 1 /\ n <= Len(s) THEN Char(s, n) ELSE ""

\* The texts of the positions lo..hi, each made by Piece, in one string.
RECURSIVE Concat(_, _, _)
Concat(Piece(_), lo, hi) ==
    IF lo > hi THEN ""
    ELSE IF lo = hi THEN Piece(lo)
    ELSE Concat(Piece, lo, (lo + hi) \div 2) \o Concat(Piece, ((lo + hi) \div 2) + 1, hi)

\* The character an escape stands for.
Escaped(c) ==
    CASE c = "\"" -> Some("\"")
      [] c = "\\" -> Some("\\")
      [] c = "/" -> Some("/")
      [] c = "n" -> Some("\n")
      [] c = "r" -> Some("\r")
      [] c = "t" -> Some("\t")
      [] c = "f" -> Some("\f")
      [] OTHER -> None

IsDigit(c) == c \in { Char(Digits, n) : n \in 1..Len(Digits) }

RECURSIVE StrToNat(_)
StrToNat(ds) ==
    IF Len(ds) = 0 THEN 0
    ELSE 10 * StrToNat(SubSeq(ds, 1, Len(ds) - 1)) + FindFrom(Digits, Char(ds, Len(ds)), 1) - 1

\* F of the value of x.
With(x, F(_)) == F(x)

\* The parser reads the text from left to right, one character at a time,
\* and keeps the containers that are open on a stack: of each its kind,
\* what it holds so far and, for an object, the key that waits for its
\* value.  mode is what may come next; inside a string or a number, text is
\* what has been read of it, and esc that a backslash came last, key that
\* the string is the key of a member, neg that the number has a minus
\* sign.  skip is the position after the word read last.
JsonStart ==
    [ok |-> TRUE, stack |-> <<>>, mode |-> "value", out |-> JNone, skip |-> 1,
     text |-> "", esc |-> FALSE, key |-> FALSE, neg |-> FALSE]

JsonFail(d) == [d EXCEPT !.ok = FALSE]

\* The value x is complete.
JsonReduce(d, x) ==
    IF Len(d.stack) = 0 THEN [d EXCEPT !.out = x, !.mode = "end"]
    ELSE [d EXCEPT !.mode = "after",
                   !.stack[Len(d.stack)].held =
                       Append(@, IF d.stack[Len(d.stack)].t = "list" THEN x
                                 ELSE <<d.stack[Len(d.stack)].key, x>>)]

\* An array or an object opens.
JsonOpen(d, t) ==
    [d EXCEPT !.stack = Append(@, [t |-> t, held |-> <<>>, key |-> ""]),
              !.mode = IF t = "list" THEN "value_or_close" ELSE "key_or_close"]

\* The innermost container closes.
JsonClose(d) ==
    JsonReduce([d EXCEPT !.stack = SubSeq(@, 1, Len(@) - 1)],
               IF d.stack[Len(d.stack)].t = "list" THEN JList(d.stack[Len(d.stack)].held)
               ELSE JDict(d.stack[Len(d.stack)].held))

\* A string opens, the key of a member or a value.
JsonQuote(d, key) == [d EXCEPT !.mode = "string", !.text = "", !.esc = FALSE, !.key = key]

\* The character c inside a string.
JsonInString(d, c) ==
    IF d.esc
    THEN IF IsNone(Escaped(c)) THEN JsonFail(d)
         ELSE [d EXCEPT !.text = @ \o Val(Escaped(c)), !.esc = FALSE]
    ELSE IF c = "\\" THEN [d EXCEPT !.esc = TRUE]
    ELSE IF c = "\""
    THEN IF d.key THEN [d EXCEPT !.stack[Len(d.stack)].key = d.text, !.mode = "colon"]
         ELSE JsonReduce(d, JStr(d.text))
    ELSE IF c \in {"\t", "\n", "\r", "\f"} THEN JsonFail(d)
    ELSE [d EXCEPT !.text = @ \o c]

\* The digit c of a number: no digit follows a leading zero.
JsonDigit(d, c) ==
    IF d.text = "0" THEN JsonFail(d) ELSE [d EXCEPT !.text = @ \o c]

\* The number ends: it has a digit.
JsonNumberEnd(d) ==
    IF d.text = "" THEN JsonFail(d)
    ELSE JsonReduce(d, JInt(IF d.neg THEN -StrToNat(d.text) ELSE StrToNat(d.text)))

\* The word at position p, which stands for x.
JsonWord(d, s, p, word, x) ==
    IF p + Len(word) - 1 <= Len(s) /\ SubSeq(s, p, p + Len(word) - 1) = word
    THEN [JsonReduce(d, x) EXCEPT !.skip = p + Len(word)]
    ELSE JsonFail(d)

\* The value that begins with the character c at position p.
JsonValue(d, s, p, c) ==
    CASE c = "{" -> JsonOpen(d, "dict")
      [] c = "[" -> JsonOpen(d, "list")
      [] c = "\"" -> JsonQuote(d, FALSE)
      [] c = "-" -> [d EXCEPT !.mode = "number", !.text = "", !.neg = TRUE]
      [] IsDigit(c) -> [d EXCEPT !.mode = "number", !.text = c, !.neg = FALSE]
      [] c = "t" -> JsonWord(d, s, p, "true", JBool(TRUE))
      [] c = "f" -> JsonWord(d, s, p, "false", JBool(FALSE))
      [] c = "n" -> JsonWord(d, s, p, "null", JNone)
      [] OTHER -> JsonFail(d)

\* The parser, between values, at the character c of position p.
JsonToken(d, s, p, c) ==
    IF ~d.ok \/ c \in JsonWhitespace THEN d
    ELSE CASE d.mode = "value" -> JsonValue(d, s, p, c)
           [] d.mode = "value_or_close" ->
                  IF c = "]" THEN JsonClose(d) ELSE JsonValue(d, s, p, c)
           [] d.mode = "key_or_close" ->
                  IF c = "}" THEN JsonClose(d)
                  ELSE IF c = "\"" THEN JsonQuote(d, TRUE)
                  ELSE JsonFail(d)
           [] d.mode = "key" ->
                  IF c = "\"" THEN JsonQuote(d, TRUE) ELSE JsonFail(d)
           [] d.mode = "colon" ->
                  IF c = ":" THEN [d EXCEPT !.mode = "value"] ELSE JsonFail(d)
           [] d.mode = "after" ->
                  IF c = ","
                  THEN [d EXCEPT !.mode = IF d.stack[Len(d.stack)].t = "list"
                                          THEN "value" ELSE "key"]
                  ELSE IF c = (IF d.stack[Len(d.stack)].t = "list" THEN "]" ELSE "}")
                  THEN JsonClose(d)
                  ELSE JsonFail(d)
           [] d.mode = "end" -> JsonFail(d)

\* The parser at the character c of position p: a number ends at the
\* first character that is no digit, which is then read as what follows.
JsonStep(d, s, p, c) ==
    IF ~d.ok \/ p < d.skip THEN d
    ELSE IF d.mode = "string" THEN JsonInString(d, c)
    ELSE IF d.mode = "number"
    THEN IF IsDigit(c) THEN JsonDigit(d, c) ELSE JsonToken(JsonNumberEnd(d), s, p, c)
    ELSE JsonToken(d, s, p, c)

\* The parser run over s[lo..hi], left to right (the range is cut in four
\* so that the evaluation stays shallow).
RECURSIVE JsonScan(_, _, _, _)
JsonScan(d, s, lo, hi) ==
    IF lo > hi THEN d
    ELSE IF lo = hi THEN JsonStep(d, s, lo, Char(s, lo))
    ELSE LET w == (hi - lo + 4) \div 4
             a == JsonScan(d, s, lo, lo + w - 1)
             b == JsonScan(a, s, lo + w, MinOf({hi, lo + 2 * w - 1}))
             c == JsonScan(b, s, lo + 2 * w, MinOf({hi, lo + 3 * w - 1}))
         IN  IF a.ok /\ b.ok /\ c.ok THEN JsonScan(c, s, lo + 3 * w, hi) ELSE JsonFail(d)

\* The parser at the end of the text, where a number ends too.
JsonEnd(d) == IF d.ok /\ d.mode = "number" THEN JsonNumberEnd(d) ELSE d

\* json.loads(x): the text holds one value and nothing after it.
json_loads(x) ==
    IF x.t # "str" THEN Raise("TypeError")
    ELSE With(JsonEnd(JsonScan(JsonStart, x.v, 1, Len(x.v))), LAMBDA d :
             IF d.ok /\ d.mode = "end" THEN Ok(d.out) ELSE Raise("JSONDecodeError"))


---------------------------------------------------------------------------
(* The report definitions of the model are built as the tests build them:  *)
(* json.dumps for the texts, base64.b64encode for the payload.             *)

\* The escape of one character of a JSON string.
DumpsChar(c) ==
    CASE c = "\"" -> "\\\""
      [] c = "\\" -> "\\\\"
      [] c = "\n" -> "\\n"
      [] c = "\r" -> "\\r"
      [] c = "\t" -> "\\t"
      [] c = "\f" -> "\\f"
      [] OTHER -> c

DumpsStr(s) ==
    "\"" \o Concat(LAMBDA n : DumpsChar(Char(s, n)), 1, Len(s)) \o "\""

\* json.dumps(x)
RECURSIVE json_dumps(_)
json_dumps(x) ==
    CASE x.t = "str" -> DumpsStr(x.v)
      [] x.t = "int" -> Format(x)
      [] x.t = "bool" -> IF x.v THEN "true" ELSE "false"
      [] x.t = "NoneType" -> "null"
      [] x.t = "list" ->
             "[" \o JoinWith(", ", [n \in 1..Len(x.v) |-> json_dumps(x.v[n])]) \o "]"
      [] x.t = "dict" ->
             "{" \o JoinWith(", ", [n \in 1..Len(x.k) |->
                        DumpsStr(x.k[n]) \o ": " \o json_dumps(x.v[x.k[n]])]) \o "}"

\* The byte of each printable character of ASCII text (json.dumps escapes
\* the others).
Utf8Of ==
    [c \in { Char(AsciiLow \o AsciiHigh, n) : n \in 1..Len(AsciiLow \o AsciiHigh) } |->
        LET n == CHOOSE n \in 1..Len(AsciiLow \o AsciiHigh) : Char(AsciiLow \o AsciiHigh, n) = c
        IN  IF n <= Len(AsciiLow) THEN n + 31 ELSE n + 32]

\* The four characters for the bytes of s from position n on (three of
\* them, or fewer at the end of s).
B64Quad(s, n) ==
    LET byte(e) == IF e <= Len(s) THEN Utf8Of[Char(s, e)] ELSE 0
        bits == byte(n) * 65536 + byte(n + 1) * 256 + byte(n + 2)
        sextet(e) == Char(B64Alphabet, ((bits \div (64 ^ (4 - e))) % 64) + 1) IN
    sextet(1) \o sextet(2)
        \o (IF n + 1 <= Len(s) THEN sextet(3) ELSE "=")
        \o (IF n + 2 <= Len(s) THEN sextet(4) ELSE "=")

\* base64.b64encode(s.encode()).decode()
b64encode(s) ==
    Concat(LAMBDA q : B64Quad(s, 3 * q - 2), 1, (Len(s) + 2) \div 3)


---------------------------------------------------------------------------
(* visuals_from_report_definition.  The argument is a dict as in           *)
(* tables_from_definition; what json.loads gives is a JSON value.          *)

\* IsExcluded without "slicer".
IsExcluded_WithoutSlicer(vtype) ==
    vtype.t = "str" /\ vtype.v \in {"textbox", "shape", "image", "actionButton"}

\* visual_type in ("slicer", "textbox", "shape", "image", "actionButton")
IsExcluded(vtype) ==
    vtype.t = "str" /\ vtype.v \in {"slicer", "textbox", "shape", "image", "actionButton"}

\* The first part with the path "report.json", None when there is none.
ReportPart ==
    LET ps == Get(report, "parts", <<>>)
        at == { n \in 1..Len(ps) : Get(ps[n], "path", "") = "report.json" } IN
    IF at = {} THEN None ELSE Some(ps[MinOf(at)])

\* json.loads(base64.b64decode(part["payload"]).decode("utf-8"))
LoadPart(part) ==
    IF "payload" \notin DOMAIN part THEN Raise("KeyError")
    ELSE LET text == DecodePayload(part.payload) IN
         IF IsNone(text) THEN Raise("ValueError") ELSE json_loads(JStr(Val(text)))

\* report_json.get("sections", [])
Sections == GetOr(report_json, "sections", JList(<<>>))

\* The sections the outer loop visits.
SectionList == Elements(Sections.v).v

\* section.get("visualContainers", []) of the section the outer loop is at.
Containers == GetOr(SectionList[sec], "visualContainers", JList(<<>>))

\* The containers the inner loop visits.
ContainerList == Elements(Containers.v).v

\* section.get("displayName", "Page")
PageName == GetOr(SectionList[sec], "displayName", JStr("Page")).v

\* The dict appended for a visual.
Descriptor(visual_name, vtitle, vtype, page_name, query, columns) ==
    [name |-> visual_name, title |-> vtitle, visual_type |-> vtype,
     page |-> page_name, dax_query |-> query, columns |-> columns]

\* The end of the body of the inner loop, from the call of _prototype_to_dax
\* on.
BuildVisual(visual_name, vtitle, vtype, page_name, prototype) ==
    With(prototype_to_dax(prototype, vtype), LAMBDA query :
        IF ~query.ok THEN query
        ELSE IF IsNone(query.v) THEN Ok(None)
        ELSE With(infer_columns_from_proto(prototype), LAMBDA columns :
                 IF ~columns.ok THEN columns
                 ELSE Ok(Some(Descriptor(visual_name, vtitle, vtype, page_name,
                                         Val(query.v), columns.v)))))

\* The body of the inner loop for a config with the truthy singleVisual sv.
VisitSingleVisual(config, sv, page_name) ==
    With(GetOr(sv, "visualType", JStr("unknown")), LAMBDA vtype :
        IF ~vtype.ok THEN vtype
        ELSE With(GetOr(config, "name", JStr("unnamed")).v, LAMBDA visual_name :
                 With(extract_title(sv), LAMBDA extracted :
                     IF ~extracted.ok THEN extracted
                     ELSE IF IsExcluded(vtype.v) THEN Ok(None)
                     ELSE BuildVisual(visual_name,
                                      IF Falsy(extracted.v) THEN visual_name ELSE extracted.v,
                                      vtype.v, page_name,
                                      GetOr(sv, "prototypeQuery", JEmptyDict).v))))

\* The body of the inner loop for the container c: Ok(None) when it goes on
\* to the next container without a visual, Ok(Some(visual)) when it appends
\* one, or the exception raised.
VisitContainer(c, page_name) ==
    With(GetOr(c, "config", JStr("{}")), LAMBDA config_text :
        IF ~config_text.ok THEN config_text
        ELSE With(json_loads(config_text.v), LAMBDA config :
                 IF ~config.ok THEN config
                 ELSE With(GetOr(config.v, "singleVisual", JEmptyDict), LAMBDA sv :
                          IF ~sv.ok THEN sv
                          ELSE IF Falsy(sv.v) THEN Ok(None)
                          ELSE VisitSingleVisual(config.v, sv.v, page_name))))

\* The loop that finds report.json met no such part: return [].
NoReportPart ==
    /\ vis_pc = "load"
    /\ IsNone(ReportPart)
    /\ report_json' = JNone
    /\ vis_pc' = "done"
    /\ UNCHANGED <<report, sec, vc, visuals, notVis>>

\* report.json is decoded; a falsy value returns [].
LoadReport ==
    /\ vis_pc = "load"
    /\ ~IsNone(ReportPart)
    /\ LET loaded == LoadPart(Val(ReportPart)) IN
       /\ loaded.ok
       /\ report_json' = loaded.v
       /\ vis_pc' = IF Falsy(loaded.v) THEN "done" ELSE "section"
    /\ UNCHANGED <<report, sec, vc, visuals, notVis>>

LoadReportRaises ==
    /\ vis_pc = "load"
    /\ ~IsNone(ReportPart)
    /\ ~LoadPart(Val(ReportPart)).ok
    /\ vis_pc' = "raised"
    /\ UNCHANGED <<report, report_json, sec, vc, visuals, notVis>>

\* The head of the outer loop: it ends the loop, takes the next section, or
\* raises (report_json has no get, its sections cannot be iterated, the
\* section has no get, or its visualContainers cannot be iterated).
SectionHead ==
    IF ~Sections.ok THEN Sections
    ELSE IF ~Elements(Sections.v).ok THEN Elements(Sections.v)
    ELSE IF sec > Len(SectionList) THEN Ok("return")
    ELSE IF ~Containers.ok THEN Containers
    ELSE IF ~Elements(Containers.v).ok THEN Elements(Containers.v)
    ELSE Ok("enter")

EnterSection ==
    /\ vis_pc = "section"
    /\ SectionHead = Ok("enter")
    /\ vc' = 1
    /\ vis_pc' = "container"
    /\ UNCHANGED <<report, report_json, sec, visuals, notVis>>

EnterSectionRaises ==
    /\ vis_pc = "section"
    /\ ~SectionHead.ok
    /\ vis_pc' = "raised"
    /\ UNCHANGED <<report, report_json, sec, vc, visuals, notVis>>

\* One iteration of the inner loop.
VisualContainer ==
    /\ vis_pc = "container"
    /\ vc <= Len(ContainerList)
    /\ LET visited == VisitContainer(ContainerList[vc], PageName) IN
       /\ visited.ok
       /\ visuals' = IF IsNone(visited.v) THEN visuals ELSE Append(visuals, Val(visited.v))
    /\ vc' = vc + 1
    /\ UNCHANGED <<report, report_json, sec, vis_pc, notVis>>

VisualContainerRaises ==
    /\ vis_pc = "container"
    /\ vc <= Len(ContainerList)
    /\ ~VisitContainer(ContainerList[vc], PageName).ok
    /\ vis_pc' = "raised"
    /\ UNCHANGED <<report, report_json, sec, vc, visuals, notVis>>

\* The inner loop is over.
LeaveSection ==
    /\ vis_pc = "container"
    /\ vc > Len(ContainerList)
    /\ sec' = sec + 1
    /\ vis_pc' = "section"
    /\ UNCHANGED <<report, report_json, vc, visuals, notVis>>

\* return visuals
ReturnVisuals ==
    /\ vis_pc = "section"
    /\ SectionHead = Ok("return")
    /\ vis_pc' = "done"
    /\ UNCHANGED <<report, report_json, sec, vc, visuals, notVis>>


---------------------------------------------------------------------------
(* The report definitions visuals_from_report_definition is called with.   *)

MaxContainers == 2

\* The objects of a single visual with the title literal value.
title_objects(value) ==
    << <<"objects", JDict(<< <<"title", JList(<<Under(KeysToValue, value)>>)>> >>)>> >>

NoObjects == <<>>

make_visual_config(name, vtype, prototype, objects) ==
    JDict(<< <<"name", JStr(name)>>,
             <<"singleVisual",
               JDict(<< <<"visualType", JStr(vtype)>>, <<"prototypeQuery", prototype>> >>
                     \o objects)>> >>)

FromTableA == << <<"From", JList(<<from_clause("t", "TableA")>>)>> >>
EmptyFrom == << <<"From", JList(<<>>)>> >>
NoFrom == <<>>
SelectOf(sels) == << <<"Select", JList(sels)>> >>
NoSelect == <<>>

\* Configs of visuals with a query, of an excluded type, without a
\* singleVisual, without From or Select, with a Select that names no field,
\* and with a title literal that is no string.
ConfigPool ==
    { make_visual_config("v1", "card",
          make_proto(FromTableA, SelectOf(<<measure_select("t", "M1")>>)),
          title_objects(JStr("'T1'"))),
      make_visual_config("v2", "barChart",
          make_proto(FromTableA, SelectOf(<<col_select("t", "Col1"), measure_select("t", "M1")>>)),
          NoObjects),
      make_visual_config("v3", "slicer",
          make_proto(FromTableA, SelectOf(<<col_select("t", "Col1")>>)), NoObjects),
      JDict(<< <<"name", JStr("v4")>> >>),
      make_visual_config("v5", "barChart",
          make_proto(EmptyFrom, SelectOf(<<col_select("t", "Col1")>>)), NoObjects),
      make_visual_config("v6", "card", make_proto(FromTableA, NoSelect), NoObjects),
      make_visual_config("v7", "barChart",
          make_proto(FromTableA, SelectOf(<<other_select>>)), NoObjects),
      make_visual_config("v8", "card",
          make_proto(FromTableA, SelectOf(<<measure_select("t", "M1")>>)),
          title_objects(JInt(5))),
      make_visual_config("v9", "card",
          make_proto(NoFrom, SelectOf(<<measure_select("t", "M1")>>)), NoObjects),
      make_visual_config("v10", "barChart", make_proto(FromTableA, SelectOf(<<>>)), NoObjects) }

make_container(config_text) ==
    JDict(<< <<"config", JStr(config_text)>>, <<"filters", JStr("[]")>> >>)

\* Containers with each config, one without a config and one whose config
\* is no JSON text.
ContainerPool ==
    { make_container(text) : text \in { json_dumps(c) : c \in ConfigPool } }
    \cup { JDict(<< <<"filters", JStr("[]")>> >>), make_container("{oops") }

make_section(name, containers) ==
    JDict(name \o << <<"visualContainers", JList(containers)>> >>)

Named(name) == << <<"displayName", JStr(name)>> >>
Unnamed == <<>>

make_report(sections) == JDict(<< <<"sections", JList(sections)>> >>)

\* Reports with up to MaxContainers containers on one page, and with that
\* many on a page each.
ReportPool ==
    { make_report(<<make_section(Named("P1"), cs)>>) :
        cs \in SeqsUpTo(ContainerPool, MaxContainers) }
    \cup { make_report([n \in 1..Len(cs) |->
                          make_section(IF n = 1 THEN Named("P1") ELSE Unnamed, <<cs[n]>>)]) :
             cs \in SeqsUpTo(ContainerPool, MaxContainers) }

\* Texts of report.json that are no such report: an empty object, a list, a
\* report whose sections are a number, one whose section is a number, one
\* whose containers are a number, one whose container is a number, and a
\* text that is no JSON.
OddTexts ==
    { "{}", "[1]", "{\"sections\": 5}", "{\"sections\": [7]}",
      "{\"sections\": [{\"visualContainers\": 3}]}",
      "{\"sections\": [{\"visualContainers\": [4]}]}", "{oops" }

PayloadPool ==
    { b64encode(text) : text \in { json_dumps(r) : r \in ReportPool } \cup OddTexts }
    \cup { "/w==", "e30" }

\* The definitions: report.json alone or after another part, no report.json,
\* no parts, and a report.json without payload.
ReportDefinitions ==
    { [parts |-> <<Part("report.json", p)>>] : p \in PayloadPool }
    \cup { [parts |-> <<[path |-> ".platform"], Part("report.json", b64encode("{}"))>>],
           [parts |-> <<[path |-> ".platform"]>>],
           EmptyDict,
           [parts |-> <<[path |-> "report.json"]>>] }

InitVisuals ==
    /\ report \in ReportDefinitions
    /\ report_json = None
    /\ sec = 1 /\ vc = 1
    /\ visuals = <<>>
    /\ vis_pc = "load"
    /\ TmdlIdle /\ st = ParserStart
    /\ DefIdle /\ DaxIdle /\ TitleIdle /\ FlatIdle /\ SchemaIdle /\ PollIdle /\ TabIdle /\ DiscIdle

NextVisuals ==
    \/ NoReportPart \/ LoadReport \/ LoadReportRaises
    \/ EnterSection \/ EnterSectionRaises
    \/ VisualContainer \/ VisualContainerRaises
    \/ LeaveSection \/ ReturnVisuals

SpecVisuals == InitVisuals /\ [][NextVisuals]_vars


---------------------------------------------------------------------------
(* What the claims say of a report, read off the decoded report.json: its  *)
(* containers page by page, and the config of each.                        *)

VisualsReturned == vis_pc = "done"

\* The list under a key of a JSON object, empty when there is none.
ListUnder(x, key) ==
    IF HasKey(x, key) /\ x.v[key].t = "list" THEN x.v[key].v ELSE <<>>

\* The value under a key of a JSON object, default when there is none.
ValueUnder(x, key, default) == IF HasKey(x, key) THEN x.v[key] ELSE default

\* The containers of the sections, in section order then container order,
\* each with the name of its page.
RECURSIVE PagedContainers(_)
PagedContainers(sections) ==
    IF sections = <<>> THEN <<>>
    ELSE LET containers == ListUnder(Head(sections), "visualContainers")
             page == ValueUnder(Head(sections), "displayName", JStr("Page")) IN
         [n \in 1..Len(containers) |-> [page |-> page, container |-> containers[n]]]
             \o PagedContainers(Tail(sections))

AllContainers ==
    IF vis_pc \in {"section", "container", "done"}
    THEN PagedContainers(ListUnder(report_json, "sections"))
    ELSE <<>>

\* The config of a container, {} when its text is missing or no JSON.
ConfigOf(c) ==
    LET config == json_loads(ValueUnder(c, "config", JStr("{}"))) IN
    IF config.ok THEN config.v ELSE JEmptyDict

SingleVisualOf(c) == ValueUnder(ConfigOf(c), "singleVisual", JEmptyDict)
NameOf(c) == ValueUnder(ConfigOf(c), "name", JStr("unnamed"))
TypeOf(c) == ValueUnder(SingleVisualOf(c), "visualType", JStr("unknown"))
ProtoOf(c) == ValueUnder(SingleVisualOf(c), "prototypeQuery", JEmptyDict)

NonDataTypes == { JStr(t) : t \in {"slicer", "textbox", "shape", "image", "actionButton"} }

\* The query of the container's prototype query, None when it yields none.
QueryOf(c) ==
    LET query == prototype_to_dax(ProtoOf(c), TypeOf(c)) IN
    IF query.ok THEN query.v ELSE None

\* The container has a singleVisual of a data type whose prototype query
\* yields a query.
Contributes(c) ==
    /\ HasKey(ConfigOf(c), "singleVisual")
    /\ TypeOf(c) \notin NonDataTypes
    /\ ~IsNone(QueryOf(c))

\* What identifies a descriptor: its visual, page and query.
Identity(name, vtype, page, query) ==
    [name |-> name, visual_type |-> vtype, page |-> page, dax_query |-> query]

ExpectedVisuals ==
    LET contributing == SelectSeq(AllContainers, LAMBDA pc1 : Contributes(pc1.container)) IN
    [n \in 1..Len(contributing) |->
        Identity(NameOf(contributing[n].container), TypeOf(contributing[n].container),
                 contributing[n].page, Val(QueryOf(contributing[n].container)))]

ReturnedVisuals ==
    [n \in 1..Len(visuals) |->
        Identity(visuals[n].name, visuals[n].visual_type, visuals[n].page,
                 visuals[n].dax_query)]

\* C11: every descriptor in the list has a non-empty dax_query and a
\* visual_type outside {slicer, textbox, shape, image, actionButton}; the
\* returned list holds, in section order then container order, exactly the
\* containers that have a singleVisual, no excluded type, and a prototype
\* query that yields a query.
C11_OnlyDataVisuals ==
    /\ \A n \in 1..Len(visuals) :
          visuals[n].dax_query # "" /\ visuals[n].visual_type \notin NonDataTypes
    /\ VisualsReturned => ReturnedVisuals = ExpectedVisuals

\* A returned list with the one visual of a second page, after a slicer on
\* the first page has been left out.
C11_Witness ==
    /\ VisualsReturned
    /\ Len(AllContainers) = 2
    /\ TypeOf(AllContainers[1].container) = JStr("slicer")
    /\ AllContainers[2].page = JStr("Page")
    /\ Contributes(AllContainers[2].container)
    /\ Len(visuals) = 1



\* The prototype query of the container has no From or an empty one, or no
\* Select or an empty one.
LacksClauses(c) ==
    \/ ListUnder(ProtoOf(c), "From") = <<>>
    \/ ListUnder(ProtoOf(c), "Select") = <<>>

\* C15: for a container of any visual type whose prototype query has a
\* missing or empty From, or a missing or empty Select, _prototype_to_dax
\* returns None, and the returned list holds no descriptor of that visual.
C15_NoClausesNoVisual ==
    \A n \in 1..Len(AllContainers) :
        LET c == AllContainers[n].container IN
        (HasKey(ConfigOf(c), "singleVisual") /\ LacksClauses(c)) =>
            /\ prototype_to_dax(ProtoOf(c), TypeOf(c)) = Ok(None)
            /\ VisualsReturned =>
                   \A e \in 1..Len(visuals) :
                       ~(visuals[e].name = NameOf(c) /\ visuals[e].page = AllContainers[n].page)

\* A returned list without the card that has a From but no Select, and with
\* the visual that follows it.
C15_Witness ==
    /\ VisualsReturned
    /\ Len(AllContainers) = 2
    /\ TypeOf(AllContainers[1].container) = JStr("card")
    /\ HasKey(ProtoOf(AllContainers[1].container), "From")
    /\ ~HasKey(ProtoOf(AllContainers[1].container), "Select")
    /\ Len(visuals) = 1
    /\ visuals[1].name = NameOf(AllContainers[2].container)
    /\ visuals[1].name # NameOf(AllContainers[1].container)


---------------------------------------------------------------------------
(* row_flattener.py.  A row is a dict from str keys to values, kept as the *)
(* sequence of its <<key, value>> items in insertion order.  The keys of   *)
(* the model hold no line break.                                           *)

MaxKeys == 2

\* pattern.match(key).group(1), or None when the key has no match.  A lazy
\* prefix (.*? or .+?) ends at the first position from which the rest of
\* the pattern matches; the greedy group then runs up to the last "]".
Closes(key) == Len(key) > 0 /\ Char(key, Len(key)) = "]"

\* _BRACKET_DOT_PATTERN: ^\[.*?\]\.\[(.+)\]$
bracket_dot_match(key) ==
    LET at == { j \in 2..(Len(key) - 4) : SubSeq(key, j, j + 2) = "].[" } IN
    IF Closes(key) /\ Char(key, 1) = "[" /\ at # {}
    THEN Some(SubSeq(key, MinOf(at) + 3, Len(key) - 1))
    ELSE None

\* _TABLE_BRACKET_PATTERN: ^.+?\[(.+)\]$
table_bracket_match(key) ==
    LET at == { j \in 2..(Len(key) - 2) : Char(key, j) = "[" } IN
    IF Closes(key) /\ at # {}
    THEN Some(SubSeq(key, MinOf(at) + 1, Len(key) - 1))
    ELSE None

\* _BARE_BRACKET_PATTERN: ^\[(.+)\]$
bare_bracket_match(key) ==
    IF Closes(key) /\ Char(key, 1) = "[" /\ Len(key) >= 3
    THEN Some(SubSeq(key, 2, Len(key) - 1))
    ELSE None

\* The three patterns tried with the bare one first.
clean_key_BareFirst(key) ==
    IF ~IsNone(bare_bracket_match(key)) THEN Val(bare_bracket_match(key))
    ELSE IF ~IsNone(bracket_dot_match(key)) THEN Val(bracket_dot_match(key))
    ELSE IF ~IsNone(table_bracket_match(key)) THEN Val(table_bracket_match(key))
    ELSE key

\* match.group(1) if match else key, for the first pattern that matches.
clean_key(key) ==
    IF ~IsNone(bracket_dot_match(key)) THEN Val(bracket_dot_match(key))
    ELSE IF ~IsNone(table_bracket_match(key)) THEN Val(table_bracket_match(key))
    ELSE IF ~IsNone(bare_bracket_match(key)) THEN Val(bare_bracket_match(key))
    ELSE key

\* d[key] = value: a key the dict has keeps its place and takes the value.
SetItem(d, key, value) ==
    IF \E n \in 1..Len(d) : d[n][1] = key
    THEN [n \in 1..Len(d) |-> IF d[n][1] = key THEN <<key, value>> ELSE d[n]]
    ELSE Append(d, <<key, value>>)

\* The loop over row.items().
RECURSIVE FlattenLoop(_, _)
FlattenLoop(d, items) ==
    IF items = <<>> THEN d
    ELSE FlattenLoop(SetItem(d, clean_key(Head(items)[1]), Head(items)[2]), Tail(items))

\* flatten_row(row)
flatten_row(r) == FlattenLoop(<<>>, r)

FlattenRow ==
    /\ flat_pc = "call"
    /\ cleaned' = flatten_row(row)
    /\ flat_pc' = "done"
    /\ UNCHANGED <<row, notFlat>>

\* Keys of every format, with and without a match.
KeyPool ==
    { "[T].[x]", "T[x]", "[x]", "x", "[y]", "U[x]", "[].[x]", "[T].[x].[y]", "[x", "[]",
      "T[[x]]", "[T].[[x]]" }

ValuePool == { JInt(1), JStr("foo"), JNone }

\* The rows with up to MaxKeys keys.
Rows ==
    { r \in SeqsUpTo(KeyPool \X ValuePool, MaxKeys) :
        \A n, e \in 1..Len(r) : n # e => r[n][1] # r[e][1] }

InitFlatten ==
    /\ row \in Rows
    /\ cleaned = <<>>
    /\ flat_pc = "call"
    /\ TmdlIdle /\ st = ParserStart
    /\ DefIdle /\ DaxIdle /\ TitleIdle /\ VisIdle /\ SchemaIdle /\ PollIdle /\ TabIdle /\ DiscIdle

NextFlatten == FlattenRow

SpecFlatten == InitFlatten /\ [][NextFlatten]_vars

---------------------------------------------------------------------------
(* What the claims say of a flattened row.                                 *)

Flattened == flat_pc = "done"

\* The keys of a dict, and the value under a key it has.
KeysOf(d) == { d[n][1] : n \in 1..Len(d) }
ValueAt(d, key) == d[CHOOSE n \in 1..Len(d) : d[n][1] = key][2]

\* C20: flatten_row(row) has exactly as many keys as row, and every value
\* of row is found unchanged under the clean key of its key.
C20_KeyCountPreserved ==
    Flattened =>
        /\ Len(cleaned) = Len(row)
        /\ \A n \in 1..Len(row) :
              /\ clean_key(row[n][1]) \in KeysOf(cleaned)
              /\ ValueAt(cleaned, clean_key(row[n][1])) = row[n][2]


\* A text holding no bracket.
NoBracket(s) == \A n \in 1..Len(s) : Char(s, n) \notin { "[", "]" }

\* The Column of a key written [Table].[Column], Table[Column] or [Column],
\* with bracket-free Table and Column (as a set: empty when the key is not
\* of the format).
DottedColumns(key) ==
    { SubSeq(key, j + 3, Len(key) - 1) :
        j \in { e \in 2..(Len(key) - 4) :
                  /\ key = "[" \o SubSeq(key, 2, e - 1) \o "].["
                               \o SubSeq(key, e + 3, Len(key) - 1) \o "]"
                  /\ NoBracket(SubSeq(key, 2, e - 1))
                  /\ NoBracket(SubSeq(key, e + 3, Len(key) - 1)) } }

PrefixedColumns(key) ==
    { SubSeq(key, j + 1, Len(key) - 1) :
        j \in { e \in 2..(Len(key) - 2) :
                  /\ key = SubSeq(key, 1, e - 1) \o "["
                               \o SubSeq(key, e + 1, Len(key) - 1) \o "]"
                  /\ NoBracket(SubSeq(key, 1, e - 1))
                  /\ NoBracket(SubSeq(key, e + 1, Len(key) - 1)) } }

BareColumns(key) ==
    { SubSeq(key, 2, Len(key) - 1) :
        j \in { e \in {3} : /\ Len(key) >= e
                            /\ key = "[" \o SubSeq(key, 2, Len(key) - 1) \o "]"
                            /\ NoBracket(SubSeq(key, 2, Len(key) - 1)) } }

TheOnly(S) == CHOOSE x \in S : TRUE

\* No pattern has a match on the key.
NoPattern(key) ==
    /\ IsNone(bracket_dot_match(key))
    /\ IsNone(table_bracket_match(key))
    /\ IsNone(bare_bracket_match(key))

\* The output key the three formats ask for: the Column of a key of one of
\* the formats, the key itself when no pattern matches, and for any other
\* key the group of the first pattern that matches, in the strict order.
ColumnName(key) ==
    IF DottedColumns(key) # {} THEN TheOnly(DottedColumns(key))
    ELSE IF PrefixedColumns(key) # {} THEN TheOnly(PrefixedColumns(key))
    ELSE IF BareColumns(key) # {} THEN TheOnly(BareColumns(key))
    ELSE IF NoPattern(key) THEN key
    ELSE IF ~IsNone(bracket_dot_match(key)) THEN Val(bracket_dot_match(key))
    ELSE IF ~IsNone(table_bracket_match(key)) THEN Val(table_bracket_match(key))
    ELSE Val(bare_bracket_match(key))

\* The members of a sequence in the order of their first occurrence.
RECURSIVE FirstOccurrences(_)
FirstOccurrences(s) ==
    IF s = <<>> THEN <<>>
    ELSE LET front == FirstOccurrences(SubSeq(s, 1, Len(s) - 1))
         IN  IF \E n \in 1..Len(front) : front[n] = s[Len(s)]
             THEN front
             ELSE Append(front, s[Len(s)])

KeyList(d) == [n \in 1..Len(d) |-> d[n][1]]

\* C21: each key of flatten_row(row) is the Column of the input key for the
\* formats [Table].[Column], Table[Column] and [Column], tried in that
\* order with the first match winning; a key no pattern matches is kept as
\* it is; and the output keys stand in the order of the input keys.
C21_PatternsInOrder ==
    Flattened =>
        KeyList(cleaned) = FirstOccurrences([n \in 1..Len(row) |-> ColumnName(row[n][1])])

\* A row with a [Table].[Column] key, which the two later patterns match as
\* well, followed by a key no pattern matches.
C21_Witness ==
    /\ Flattened
    /\ Len(row) = 2
    /\ DottedColumns(row[1][1]) = { "x" }
    /\ ~IsNone(table_bracket_match(row[1][1]))
    /\ ~IsNone(bare_bracket_match(row[1][1]))
    /\ NoPattern(row[2][1])
    /\ KeyList(cleaned) = << "x", row[2][1] >>

\* C22: flattening a flattened row changes nothing.
C22_Idempotent ==
    Flattened => flatten_row(cleaned) = cleaned


---------------------------------------------------------------------------
(* The fields of a query, read off its text.                               *)

\* How often a text stands in another.
Occurrences(s, sub) ==
    Cardinality({ n \in 1..(Len(s) - Len(sub) + 1) : SubSeq(s, n, n + Len(sub) - 1) = sub })

\* The column refs a query groups by: those that open the argument list or
\* follow another column ref.
QueryColumnRefs(q) ==
    Occurrences(q, "COLUMNS('") + Occurrences(q, "DISTINCT('") + Occurrences(q, "], '")

\* The name/expression pairs of a query: one quoted name each.
QueryPairs(q) == Occurrences(q, "\"") \div 2

\* A descriptor is built from a prototype for which both functions return
\* and the query is not None.
DescriptorBuilt == DaxReturned /\ ~IsNone(dax) /\ infer_pc = "done"

\* The inferred columns name the fields of the query and no others.
ColumnsAgreeWithQuery ==
    /\ \A n \in 1..Len(Val(inferred)) :
          LET c == Val(inferred)[n] IN
          /\ c.dataType = "String" =>
                 \E e \in 1..Len(ColumnSels) :
                     /\ JStr(PropertyOf(ColumnSels[e])) = c.name
                     /\ FindFrom(Val(dax), ColumnRefText(ColumnSels[e]), 1) > 0
          /\ c.dataType = "Double" =>
                 FindFrom(Val(dax), "\"" \o c.name.v \o "\", ", 1) > 0
    /\ Len(Val(inferred)) = QueryColumnRefs(Val(dax)) + QueryPairs(Val(dax))

\* C30: for every descriptor the inferred columns agree with the fields of
\* dax_query: each String column is a column ref of the query, each Double
\* column the name of a pair of the query, and there are as many columns as
\* column refs plus pairs; also for a card whose Select holds Columns.
C30_ColumnsMatchQuery == DescriptorBuilt => ColumnsAgreeWithQuery

\* The same for the visuals that are no card.
C30_ColumnsMatchQueryOffCard == (DescriptorBuilt /\ ~IsCard) => ColumnsAgreeWithQuery


---------------------------------------------------------------------------
(* type_mapping.py.  A dict is an object: the heap gives the content of    *)
(* each dict by its identity, so that two names for one object see the     *)
(* same content.  The six dicts of POWERBI_TYPE_MAP have the identity of   *)
(* their key; a dict made by a call has a fresh identity "#n".             *)

MaxCalls == 2
MaxColumns == 2

\* POWERBI_TYPE_MAP with Int64 mapped to integer.
POWERBI_TYPE_MAP_IntegerInt64 ==
    [name \in { "String", "Int64", "Double", "Decimal", "Boolean", "DateTime" } |->
        CASE name = "String" -> [type |-> << "string", "null" >>]
          [] name = "Int64" -> [type |-> << "integer", "null" >>]
          [] name = "Double" -> [type |-> << "number", "null" >>]
          [] name = "Decimal" -> [type |-> << "number", "null" >>]
          [] name = "Boolean" -> [type |-> << "boolean", "null" >>]
          [] name = "DateTime" -> [type |-> << "string", "null" >>, format |-> "date-time"]]

POWERBI_TYPE_MAP ==
    [name \in { "String", "Int64", "Double", "Decimal", "Boolean", "DateTime" } |->
        CASE name = "String" -> [type |-> << "string", "null" >>]
          [] name = "Int64" -> [type |-> << "number", "null" >>]
          [] name = "Double" -> [type |-> << "number", "null" >>]
          [] name = "Decimal" -> [type |-> << "number", "null" >>]
          [] name = "Boolean" -> [type |-> << "boolean", "null" >>]
          [] name = "DateTime" -> [type |-> << "string", "null" >>, format |-> "date-time"]]

\* The identity of the next dict a call makes.
Fresh(h) == "#" \o NatToStr(Cardinality(DOMAIN h \ DOMAIN POWERBI_TYPE_MAP) + 1)

\* powerbi_type_to_jsonschema(powerbi_type) for a hashable argument: the
\* dict of the map under a key the map has, the dict of the default
\* literal otherwise.  The literal is built at every call.
powerbi_type_to_jsonschema(h, t) ==
    LET default == Fresh(h) IN
    IF t.t = "str" /\ t.v \in DOMAIN POWERBI_TYPE_MAP
    THEN [ref |-> t.v, heap |-> h]
    ELSE [ref |-> default, heap |-> h @@ (default :> [type |-> << "string", "null" >>])]

\* d[key] = value that leaves a key the dict has as it is.
SetItem_FirstKept(d, key, value) ==
    IF \E n \in 1..Len(d) : d[n][1] = key THEN d ELSE Append(d, <<key, value>>)

\* properties[col["name"]] = ...
SetProperty(d, key, value) == SetItem(d, key, value)

\* The loop over columns: col["dataType"] is read before col["name"].
RECURSIVE SchemaLoop(_, _, _)
SchemaLoop(h, properties, cols) ==
    IF Len(cols) = 0 THEN Ok([properties |-> properties, heap |-> h])
    ELSE LET dataType == Item(Head(cols), "dataType")
             name == Item(Head(cols), "name") IN
         IF ~dataType.ok THEN dataType
         ELSE IF ~name.ok THEN name
         ELSE With(powerbi_type_to_jsonschema(h, dataType.v),
                   LAMBDA r : SchemaLoop(r.heap,
                                         SetProperty(properties, name.v, r.ref),
                                         Tail(cols)))

\* build_schema_from_columns(columns): Ok(the schema and the heap after the
\* call) or the exception raised.
build_schema_from_columns(h, cols) ==
    With(SchemaLoop(h, <<>>, cols),
         LAMBDA r : IF r.ok
                    THEN Ok([schema |-> [type |-> "object", properties |-> r.v.properties],
                             heap |-> r.v.heap])
                    ELSE r)

\* The arguments of the model: every key of the map, a type the map does
\* not have, and None.
PowerBITypes ==
    { JStr(name) : name \in DOMAIN POWERBI_TYPE_MAP } \cup { JStr("SomeNewType"), JNone }

make_column(name, dataType) == JDict(<< <<"name", JStr(name)>>, <<"dataType", dataType>> >>)

\* Columns of the tested types and of an unknown one, and columns that
\* lack a key.
ColumnPool ==
    { make_column("Region", JStr("String")), make_column("Region", JStr("Double")),
      make_column("Revenue", JStr("Double")), make_column("Revenue", JStr("SomeNewType")) }
    \cup { JDict(<< <<"name", JStr("Region")>> >>),
           JDict(<< <<"dataType", JStr("String")>> >>),
           JEmptyDict }

ColumnLists == SeqsUpTo(ColumnPool, MaxColumns)

\* A call of powerbi_type_to_jsonschema.
TypeToJsonschema ==
    /\ calls < MaxCalls
    /\ \E t \in PowerBITypes :
          With(powerbi_type_to_jsonschema(heap, t),
               LAMBDA r : /\ powerbi_type' = Some(t)
                          /\ fragment' = Some(r.ref)
                          /\ heap' = r.heap)
    /\ column_list' = None /\ schema' = None /\ schema_pc' = "idle"
    /\ calls' = calls + 1
    /\ UNCHANGED notSchema

\* A call of build_schema_from_columns that returns.
BuildSchema ==
    /\ calls < MaxCalls
    /\ \E cols \in ColumnLists :
          With(build_schema_from_columns(heap, cols),
               LAMBDA r : /\ r.ok
                          /\ column_list' = Some(cols)
                          /\ schema' = Some(r.v.schema)
                          /\ heap' = r.v.heap)
    /\ schema_pc' = "done"
    /\ powerbi_type' = None /\ fragment' = None
    /\ calls' = calls + 1
    /\ UNCHANGED notSchema

\* A call of build_schema_from_columns that raises.
BuildSchemaRaises ==
    /\ calls < MaxCalls
    /\ \E cols \in ColumnLists :
          /\ ~build_schema_from_columns(heap, cols).ok
          /\ column_list' = Some(cols)
    /\ schema' = None /\ schema_pc' = "raised"
    /\ powerbi_type' = None /\ fragment' = None
    /\ calls' = calls + 1
    /\ UNCHANGED <<heap, notSchema>>

\* The dicts the last call returned: the fragment, or those in the schema.
ReturnedRefs ==
    (IF IsNone(fragment) THEN {} ELSE { Val(fragment) })
    \cup (IF IsNone(schema) THEN {}
          ELSE { Val(schema).properties[n][2] : n \in 1..Len(Val(schema).properties) })

\* fragment["type"].remove("null")
RemoveNull(f) == [f EXCEPT !.type = SelectSeq(@, LAMBDA x : x # "null")]

\* The caller changes a dict it was given.
ConsumerChanges ==
    /\ \E ref \in ReturnedRefs :
          /\ RemoveNull(heap[ref]) # heap[ref]
          /\ heap' = [heap EXCEPT ![ref] = RemoveNull(@)]
    /\ UNCHANGED <<powerbi_type, fragment, column_list, schema, schema_pc, calls, notSchema>>

InitSchema ==
    /\ heap = POWERBI_TYPE_MAP
    /\ powerbi_type = None /\ fragment = None
    /\ column_list = None /\ schema = None /\ schema_pc = "idle"
    /\ calls = 0
    /\ TmdlIdle /\ st = ParserStart
    /\ DefIdle /\ DaxIdle /\ TitleIdle /\ VisIdle /\ FlatIdle /\ PollIdle /\ TabIdle /\ DiscIdle

NextSchema == TypeToJsonschema \/ BuildSchema \/ BuildSchemaRaises

\* The calls of a caller that leaves what it is given as it is.
SpecSchema == InitSchema /\ [][NextSchema]_vars

NextShared == NextSchema \/ ConsumerChanges

\* The calls of a caller that may change what it is given.
SpecShared == InitSchema /\ [][NextShared]_vars


---------------------------------------------------------------------------
(* What the claims say of the schema fragments.                            *)

\* The fixed table, written out; the String fragment for any other input.
ClaimedFragment(t) ==
    IF t = JStr("Int64") \/ t = JStr("Double") \/ t = JStr("Decimal")
    THEN [type |-> << "number", "null" >>]
    ELSE IF t = JStr("Boolean") THEN [type |-> << "boolean", "null" >>]
    ELSE IF t = JStr("DateTime") THEN [type |-> << "string", "null" >>, format |-> "date-time"]
    ELSE [type |-> << "string", "null" >>]

ListHas(s, x) == \E n \in 1..Len(s) : s[n] = x

\* C23: powerbi_type_to_jsonschema returns the fragment of the fixed table
\* (string for String, number for Int64, Double and Decimal, boolean for
\* Boolean, string with the format date-time for DateTime, the String
\* fragment for anything else), and the type list of every returned
\* fragment contains "null".
C23_TypeTable ==
    ~IsNone(fragment) =>
        /\ heap[Val(fragment)] = ClaimedFragment(Val(powerbi_type))
        /\ ListHas(heap[Val(fragment)].type, "null")

\* The second call is given a type the table does not have.
C23_Witness ==
    /\ calls = 2
    /\ powerbi_type = Some(JStr("SomeNewType"))
    /\ heap[Val(fragment)] = [type |-> << "string", "null" >>]

\* The names of the columns, and the last column with a name.
ColumnNames(cols) == [n \in 1..Len(cols) |-> cols[n].v["name"]]

LastNamed(cols, name) ==
    cols[CHOOSE n \in 1..Len(cols) :
            /\ cols[n].v["name"] = name
            /\ \A e \in (n + 1)..Len(cols) : cols[e].v["name"] # name]

\* C24: build_schema_from_columns returns {type: "object", properties: P}
\* where P has one entry for each distinct column name, in the order of
\* the input, holding the fragment of the last column of that name; an
\* empty list gives empty properties.
C24_SchemaOfColumns ==
    schema_pc = "done" =>
        LET cols == Val(column_list)
            P == Val(schema).properties IN
        /\ Val(schema).type = "object"
        /\ DOMAIN Val(schema) = { "type", "properties" }
        /\ KeyList(P) = FirstOccurrences(ColumnNames(cols))
        /\ Len(P) = Cardinality({ cols[n].v["name"] : n \in 1..Len(cols) })
        /\ \A n \in 1..Len(P) :
              heap[P[n][2]] = ClaimedFragment(LastNamed(cols, P[n][1]).v["dataType"])
        /\ cols = <<>> => P = <<>>

\* Two columns of one name and different types.
C24_Witness ==
    /\ schema_pc = "done"
    /\ Len(Val(column_list)) = 2
    /\ Val(column_list)[1].v["name"] = Val(column_list)[2].v["name"]
    /\ Val(column_list)[1].v["dataType"] = JStr("String")
    /\ Val(column_list)[2].v["dataType"] = JStr("Double")
    /\ Len(Val(schema).properties) = 1
    /\ heap[Val(schema).properties[1][2]] = [type |-> << "number", "null" >>]

\* C25: no component raises on malformed or partial input: a Select or
\* From entry with missing nested keys, a matching part whose payload is
\* missing or cannot be decoded, a container whose config is no JSON and a
\* column without name or dataType each give a default.
C25_NothingRaises ==
    /\ dax_pc # "raised" /\ infer_pc # "raised"
    /\ dpc # "raised"
    /\ vis_pc # "raised"
    /\ schema_pc # "raised"

\* C26: each call's result is a function of its arguments alone, whatever
\* the caller has done with the values returned to it before: a call of
\* powerbi_type_to_jsonschema returns the fragment of the table, and a call
\* of build_schema_from_columns a schema of such fragments.
C26_ResultOfArgumentsAlone ==
    [][ /\ (calls' = calls + 1 /\ ~IsNone(fragment')) =>
               heap'[Val(fragment')] = ClaimedFragment(Val(powerbi_type'))
        /\ (calls' = calls + 1 /\ schema_pc' = "done") =>
               \A n \in 1..Len(Val(schema').properties) :
                   heap'[Val(schema').properties[n][2]] =
                       ClaimedFragment(LastNamed(Val(column_list'),
                                                 Val(schema').properties[n][1]).v["dataType"])
      ]_vars


---------------------------------------------------------------------------
(* tap.py, _poll_fabric_operation.  A response is what requests.get gives: *)
(* the exception it raises, or a status code, the value of .json() (None   *)
(* for a body that is no JSON) and the Retry-After header (None when the   *)
(* response has none).                                                     *)

MaxPolls == 3

Response(status_code, body, header) ==
    [error |-> None, status_code |-> status_code, json |-> body, retry |-> header]

Failure(exc) == [error |-> Some(exc), status_code |-> 0, json |-> None, retry |-> None]

\* requests.get(...) followed by raise_for_status(): the exception, if any.
RaisedBy(resp) ==
    IF ~IsNone(resp.error) THEN resp.error
    ELSE IF resp.status_code >= 400 /\ resp.status_code < 600 THEN Some("HTTPError")
    ELSE None

\* resp.json()
JsonOf(resp) == IF IsNone(resp.json) THEN Raise("JSONDecodeError") ELSE Ok(Val(resp.json))

\* int(x) for the text of a header.
IntOf(s) ==
    IF Len(s) > 0 /\ \A n \in 1..Len(s) : IsDigit(Char(s, n)) THEN Ok(StrToNat(s))
    ELSE Raise("ValueError")

\* int(headers.get("Retry-After", default))
RetryAfterOf(header, default) == IF IsNone(header) THEN Ok(default) ELSE IntOf(Val(header))

\* poll_resp.json().get("status") after the request: Ok(status) or the
\* exception raised.
StatusOf(resp) ==
    IF ~IsNone(RaisedBy(resp)) THEN Raise(Val(RaisedBy(resp)))
    ELSE IF ~JsonOf(resp).ok THEN JsonOf(resp)
    ELSE GetOr(JsonOf(resp).v, "status", JNone)

\* The exception of the Failed branch: error.get needs a dict.
FailedError(resp) ==
    With(GetOr(JsonOf(resp).v, "error", JEmptyDict).v,
         LAMBDA error : IF error.t = "dict" THEN "RuntimeError" ELSE "AttributeError")

Slept(seconds) == [op |-> "sleep", seconds |-> seconds, status |-> ""]
Polled(status) == [op |-> "poll", seconds |-> 0, status |-> status]
ResultFetched == [op |-> "result", seconds |-> 0, status |-> ""]

\* The status as a text, "" for none and for a status that is no text.
StatusText(status) == IF status.ok /\ status.v.t = "str" THEN status.v.v ELSE ""

Finish(at, out) ==
    /\ poll_pc' = at
    /\ poll_out' = Some(out)

\* retry_after = int(initial_resp.headers.get("Retry-After", 5))
PollStart ==
    /\ poll_pc = "start"
    /\ RetryAfterOf(initial_resp, 5).ok
    /\ retry_after' = RetryAfterOf(initial_resp, 5).v
    /\ poll_pc' = "loop"
    /\ UNCHANGED <<initial_resp, polls, io, poll_out, notPoll>>

PollStartRaises ==
    /\ poll_pc = "start"
    /\ ~RetryAfterOf(initial_resp, 5).ok
    /\ Finish("raised", RetryAfterOf(initial_resp, 5))
    /\ UNCHANGED <<initial_resp, retry_after, polls, io, notPoll>>

\* The head of the for loop and time.sleep(retry_after).
Sleep ==
    /\ poll_pc = "loop" /\ polls < MaxPolls
    /\ polls' = polls + 1
    /\ io' = Append(io, Slept(retry_after))
    /\ poll_pc' = "request"
    /\ UNCHANGED <<initial_resp, retry_after, poll_out, notPoll>>

\* The loop has run max_polls times.
PollTimeout ==
    /\ poll_pc = "loop" /\ polls >= MaxPolls
    /\ Finish("raised", Raise("TimeoutError"))
    /\ UNCHANGED <<initial_resp, retry_after, polls, io, notPoll>>

PollSucceeded(resp) ==
    /\ poll_pc = "request"
    /\ StatusOf(resp) = Ok(JStr("Succeeded"))
    /\ io' = Append(io, Polled("Succeeded"))
    /\ poll_pc' = "result"
    /\ UNCHANGED <<initial_resp, retry_after, polls, poll_out, notPoll>>

\* PollFailed that goes on with the next poll.
PollFailed_KeepsPolling(resp) ==
    /\ poll_pc = "request"
    /\ StatusOf(resp) = Ok(JStr("Failed"))
    /\ io' = Append(io, Polled("Failed"))
    /\ poll_pc' = "loop"
    /\ UNCHANGED <<initial_resp, retry_after, polls, poll_out, notPoll>>

PollFailed(resp) ==
    /\ poll_pc = "request"
    /\ StatusOf(resp) = Ok(JStr("Failed"))
    /\ io' = Append(io, Polled("Failed"))
    /\ Finish("raised", Raise(FailedError(resp)))
    /\ UNCHANGED <<initial_resp, retry_after, polls, notPoll>>

\* Another status: the next sleep takes the Retry-After of this response.
PollPending(resp) ==
    /\ poll_pc = "request"
    /\ StatusOf(resp).ok
    /\ StatusOf(resp).v \notin { JStr("Succeeded"), JStr("Failed") }
    /\ io' = Append(io, Polled(StatusText(StatusOf(resp))))
    /\ With(RetryAfterOf(resp.retry, retry_after),
            LAMBDA next : IF next.ok
                          THEN /\ retry_after' = next.v
                               /\ poll_pc' = "loop"
                               /\ UNCHANGED poll_out
                          ELSE /\ Finish("raised", next)
                               /\ UNCHANGED retry_after)
    /\ UNCHANGED <<initial_resp, polls, notPoll>>

\* The request, raise_for_status, .json() or .get raises.
PollRaises(resp) ==
    /\ poll_pc = "request"
    /\ ~StatusOf(resp).ok
    /\ io' = Append(io, Polled(""))
    /\ Finish("raised", StatusOf(resp))
    /\ UNCHANGED <<initial_resp, retry_after, polls, notPoll>>

\* result_resp.json().get("definition", {}) after the request.
DefinitionOf(resp) ==
    IF ~IsNone(RaisedBy(resp)) THEN Raise(Val(RaisedBy(resp)))
    ELSE IF ~JsonOf(resp).ok THEN JsonOf(resp)
    ELSE GetOr(JsonOf(resp).v, "definition", JEmptyDict)

FetchResult(resp) ==
    /\ poll_pc = "result"
    /\ io' = Append(io, ResultFetched)
    /\ Finish(IF DefinitionOf(resp).ok THEN "done" ELSE "raised", DefinitionOf(resp))
    /\ UNCHANGED <<initial_resp, retry_after, polls, notPoll>>

\* The answers of the operation URL and of the result URL.
RetryHeaders == { None, Some("1"), Some("soon") }

StatusBody(status) == JDict(<< <<"status", JStr(status)>> >>)

PollBodies ==
    { Some(StatusBody("Succeeded")), Some(StatusBody("Running")), Some(JEmptyDict),
      Some(JDict(<< <<"status", JStr("Failed")>>,
                    <<"error", JDict(<< <<"message", JStr("boom")>> >>)>> >>)),
      Some(JDict(<< <<"status", JStr("Failed")>>, <<"error", JStr("boom")>> >>)),
      Some(JList(<<>>)),
      None }

PollResponses ==
    { Failure("ConnectionError"), Response(500, None, None) }
    \cup { Response(200, body, header) : body \in PollBodies, header \in RetryHeaders }

ResultResponses ==
    { Failure("ConnectionError"), Response(404, None, None),
      Response(200, None, None),
      Response(200, Some(JEmptyDict), None),
      Response(200, Some(JDict(<< <<"definition", JDict(<< <<"parts", JList(<<>>)>> >>)>> >>)), None) }

InitPoll ==
    /\ initial_resp \in { None, Some("2"), Some("soon") }
    /\ retry_after = 0 /\ polls = 0 /\ io = <<>>
    /\ poll_out = None /\ poll_pc = "start"
    /\ TmdlIdle /\ st = ParserStart
    /\ DefIdle /\ DaxIdle /\ TitleIdle /\ VisIdle /\ FlatIdle /\ SchemaIdle /\ TabIdle /\ DiscIdle

NextPoll ==
    \/ PollStart
    \/ PollStartRaises
    \/ Sleep
    \/ PollTimeout
    \/ \E resp \in PollResponses :
          PollSucceeded(resp) \/ PollFailed(resp) \/ PollPending(resp) \/ PollRaises(resp)
    \/ \E resp \in ResultResponses : FetchResult(resp)

SpecPoll == InitPoll /\ [][NextPoll]_vars

\* Every request is answered or fails, and every sleep ends.
SpecPollFair == SpecPoll /\ WF_vars(NextPoll)


---------------------------------------------------------------------------
(* What the claims say of a run of _poll_fabric_operation, read off the    *)
(* sleeps and requests it made.                                            *)

PollEnded == poll_pc \in { "done", "raised" }

IoAt(op) == { n \in 1..Len(io) : io[n].op = op }

\* There are at most max_polls polls, and each directly follows a sleep.
PollsBounded ==
    /\ Cardinality(IoAt("poll")) <= MaxPolls
    /\ \A n \in IoAt("poll") : n > 1 /\ io[n - 1].op = "sleep"
    /\ Cardinality(IoAt("sleep")) - Cardinality(IoAt("poll")) \in { 0, 1 }

\* The definition is returned: one result request, the last request made,
\* right after the one poll that reported Succeeded.
ReturnedDefinition ==
    /\ poll_pc = "done" /\ Val(poll_out).ok
    /\ IoAt("result") = { Len(io) }
    /\ Len(io) > 1 /\ io[Len(io) - 1] = Polled("Succeeded")
    /\ \A n \in IoAt("poll") : n < Len(io) - 1 => io[n].status \notin { "Succeeded", "Failed" }

\* RuntimeError at the first poll that reports Failed: it is the last
\* request, and there is no result request.
RaisedRuntimeError ==
    /\ poll_pc = "raised" /\ Val(poll_out) = Raise("RuntimeError")
    /\ IoAt("result") = {}
    /\ Len(io) > 0 /\ io[Len(io)] = Polled("Failed")
    /\ \A n \in IoAt("poll") : n < Len(io) => io[n].status \notin { "Succeeded", "Failed" }

\* TimeoutError once max_polls polls have reported another status.
RaisedTimeoutError ==
    /\ poll_pc = "raised" /\ Val(poll_out) = Raise("TimeoutError")
    /\ IoAt("result") = {}
    /\ Cardinality(IoAt("poll")) = MaxPolls
    /\ \A n \in IoAt("poll") : io[n].status \notin { "Succeeded", "Failed" }

\* Another exception leaves the function: that of a request that fails or
\* of an answer that cannot be read (an HTTP error status, a body that is
\* no JSON object, an error that is no object, a Retry-After that is no
\* number).  Nothing is requested after it.
RaisedAtOnce ==
    /\ poll_pc = "raised" /\ ~Val(poll_out).ok
    /\ Val(poll_out).exc \notin { "RuntimeError", "TimeoutError" }
    /\ Cardinality(IoAt("result")) <= 1
    /\ \A n \in IoAt("result") : n = Len(io) /\ io[n - 1] = Polled("Succeeded")

---------------------------------------------------------------------------
(* tap.py, _discover_tables and the two ways it tries.  The value of       *)
(* .json() is a JSON value; the parts of a definition are the dicts of     *)
(* tables_from_definition above.                                           *)

MaxFabricParts == 2

\* len(x)
SizedLen(x) == IF x.t \in { "list", "dict", "str" } THEN Ok(x) ELSE Raise("TypeError")

\* _discover_tables_via_rest followed by the logger.info of the try block,
\* which takes len(tables): Ok(tables) or the exception raised.
discover_tables_via_rest(resp) ==
    IF ~IsNone(RaisedBy(resp)) THEN Raise(Val(RaisedBy(resp)))
    ELSE IF ~JsonOf(resp).ok THEN JsonOf(resp)
    ELSE With(GetOr(JsonOf(resp).v, "value", JList(<<>>)),
              LAMBDA value : IF value.ok THEN SizedLen(value.v) ELSE value)

\* The loop of tables_from_definition as one call.
RECURSIVE TablesLoop(_, _)
TablesLoop(found, parts) ==
    IF Len(parts) = 0 THEN Ok(JList(found))
    ELSE IF ~IsTablePath(PathOf(Head(parts))) THEN TablesLoop(found, Tail(parts))
    ELSE With(PayloadText(Head(parts)),
              LAMBDA payload :
                  IF IsNone(payload) THEN Raise("Exception")
                  ELSE With(parse_tmdl_table(Val(payload)),
                            LAMBDA table :
                                TablesLoop(IF IsVisibleTable(table)
                                           THEN Append(found, TableEntry(table))
                                           ELSE found,
                                           Tail(parts))))

\* tables_from_definition(definition): definition.get needs a dict.
TablesOf(def) ==
    IF def.t # "dict" THEN Raise("AttributeError")
    ELSE TablesLoop(<<>>, Get(def.v, "parts", <<>>))

\* The answer of the getDefinition request: a response, and for the status
\* 202 what _poll_fabric_operation then returns or raises.
FabricResponse(status_code, body, operation) ==
    [error |-> None, status_code |-> status_code, json |-> body, retry |-> None,
     operation |-> operation]

FabricFailure(exc) ==
    [error |-> Some(exc), status_code |-> 0, json |-> None, retry |-> None,
     operation |-> Raise(exc)]

\* _discover_tables_via_fabric: Ok(tables) or the exception raised.
discover_tables_via_fabric(resp) ==
    IF ~IsNone(resp.error) THEN Raise(Val(resp.error))
    ELSE IF resp.status_code = 200
    THEN IF ~JsonOf(resp).ok THEN JsonOf(resp)
         ELSE With(GetOr(JsonOf(resp).v, "definition", JEmptyDict),
                   LAMBDA def : IF def.ok THEN TablesOf(def.v) ELSE def)
    ELSE IF resp.status_code = 202
    THEN IF resp.operation.ok THEN TablesOf(resp.operation.v) ELSE resp.operation
    ELSE IF ~IsNone(RaisedBy(resp)) THEN Raise(Val(RaisedBy(resp)))
    ELSE Ok(JList(<<>>))

\* The first try block returns.
RestReturns_EmptyTriesFabric(resp) ==
    /\ dt_pc = "rest"
    /\ discover_tables_via_rest(resp).ok
    /\ dt_rest' = Some(resp)
    /\ dt_calls' = Append(dt_calls, "rest")
    /\ IF discover_tables_via_rest(resp).v = JList(<<>>)
       THEN dt_pc' = "fabric" /\ UNCHANGED dt_out
       ELSE dt_pc' = "done" /\ dt_out' = Some(discover_tables_via_rest(resp).v)
    /\ UNCHANGED <<dt_fabric, notTab>>

RestReturns(resp) ==
    /\ dt_pc = "rest"
    /\ discover_tables_via_rest(resp).ok
    /\ dt_rest' = Some(resp)
    /\ dt_calls' = Append(dt_calls, "rest")
    /\ dt_out' = Some(discover_tables_via_rest(resp).v)
    /\ dt_pc' = "done"
    /\ UNCHANGED <<dt_fabric, notTab>>

\* The first try block raises: except Exception: pass.
RestRaises(resp) ==
    /\ dt_pc = "rest"
    /\ ~discover_tables_via_rest(resp).ok
    /\ dt_rest' = Some(resp)
    /\ dt_calls' = Append(dt_calls, "rest")
    /\ dt_pc' = "fabric"
    /\ UNCHANGED <<dt_fabric, dt_out, notTab>>

\* The second try block returns.
FabricReturns(resp) ==
    /\ dt_pc = "fabric"
    /\ discover_tables_via_fabric(resp).ok
    /\ dt_fabric' = Some(resp)
    /\ dt_calls' = Append(dt_calls, "fabric")
    /\ dt_out' = Some(discover_tables_via_fabric(resp).v)
    /\ dt_pc' = "done"
    /\ UNCHANGED <<dt_rest, notTab>>

\* The second try block raises: return [].
FabricRaises(resp) ==
    /\ dt_pc = "fabric"
    /\ ~discover_tables_via_fabric(resp).ok
    /\ dt_fabric' = Some(resp)
    /\ dt_calls' = Append(dt_calls, "fabric")
    /\ dt_out' = Some(JList(<<>>))
    /\ dt_pc' = "done"
    /\ UNCHANGED <<dt_rest, notTab>>

\* The answers of the model.
RestTable(name) ==
    [name |-> name, columns |-> << [name |-> "Label", dataType |-> "String"] >>]

ValueBody(value) == JDict(<< <<"value", value>> >>)

RestResponses ==
    { Failure("ConnectionError"), Response(404, None, None), Response(200, None, None),
      Response(200, Some(JList(<<>>)), None),
      Response(200, Some(JEmptyDict), None),
      Response(200, Some(ValueBody(JNone)), None),
      Response(200, Some(ValueBody(JList(<<>>))), None),
      Response(200, Some(ValueBody(JList(<< RestTable("Items") >>))), None),
      Response(200, Some(ValueBody(JList(<< RestTable("Items"), RestTable("Sales") >>))), None) }

FabricParts ==
    { Part("definition/tables/A.tmdl", Encoded[VisibleText]),
      Part("definition/tables/B.tmdl", Encoded[HiddenTableText]),
      Part("definition/model.tmdl", Encoded[VisibleText]),
      [path |-> "definition/tables/F.tmdl"] }

FabricDefinitions ==
    { JDict(<< <<"parts", ps>> >>) : ps \in SeqsUpTo(FabricParts, MaxFabricParts) }

DefinitionBody(def) == JDict(<< <<"definition", def>> >>)

FabricResponses ==
    { FabricFailure("ConnectionError"),
      FabricResponse(403, None, Raise("HTTPError")),
      FabricResponse(204, None, Raise("HTTPError")),
      FabricResponse(200, None, Raise("HTTPError")),
      FabricResponse(200, Some(JEmptyDict), Raise("HTTPError")),
      FabricResponse(200, Some(DefinitionBody(JNone)), Raise("HTTPError")),
      FabricResponse(202, None, Raise("RuntimeError")),
      FabricResponse(202, None, Raise("TimeoutError")),
      FabricResponse(202, None, Raise("HTTPError")),
      FabricResponse(202, None, Ok(JEmptyDict)) }
    \cup { FabricResponse(200, Some(DefinitionBody(def)), Raise("HTTPError")) :
             def \in FabricDefinitions }
    \cup { FabricResponse(202, None, Ok(def)) : def \in FabricDefinitions }

InitTables ==
    /\ dt_rest = None /\ dt_fabric = None /\ dt_calls = <<>>
    /\ dt_out = None /\ dt_pc = "rest"
    /\ TmdlIdle /\ st = ParserStart
    /\ DefIdle /\ DaxIdle /\ TitleIdle /\ VisIdle /\ FlatIdle /\ SchemaIdle /\ PollIdle /\ DiscIdle

NextTables ==
    \/ \E resp \in RestResponses : RestReturns(resp) \/ RestRaises(resp)
    \/ \E resp \in FabricResponses : FabricReturns(resp) \/ FabricRaises(resp)

SpecTables == InitTables /\ [][NextTables]_vars

---------------------------------------------------------------------------
(* What the claims say of _discover_tables.                                *)

\* The REST attempt succeeds: the request is answered without an HTTP
\* error by a JSON object whose value, if it has one, is a list.
RestSucceeded(resp) ==
    /\ IsNone(resp.error)
    /\ resp.status_code < 400
    /\ ~IsNone(resp.json) /\ Val(resp.json).t = "dict"
    /\ "value" \in DOMAIN Val(resp.json).v => Val(resp.json).v["value"].t = "list"

RestValue(resp) ==
    IF "value" \in DOMAIN Val(resp.json).v THEN Val(resp.json).v["value"] ELSE JList(<<>>)

\* C27: _discover_tables tries REST first and Fabric only if the REST
\* attempt raised; what a REST success gives, an empty list too, is
\* returned with no Fabric attempt; when both attempts raise, the result is
\* the empty list and nothing is raised.
C27_RestThenFabric ==
    /\ dt_calls \in { <<>>, << "rest" >>, << "rest", "fabric" >> }
    /\ Len(dt_calls) = 2 => ~RestSucceeded(Val(dt_rest))
    /\ dt_pc = "done" =>
          IF RestSucceeded(Val(dt_rest))
          THEN dt_calls = << "rest" >> /\ dt_out = Some(RestValue(Val(dt_rest)))
          ELSE /\ dt_calls = << "rest", "fabric" >>
               /\ dt_out = Some(IF discover_tables_via_fabric(Val(dt_fabric)).ok
                                THEN discover_tables_via_fabric(Val(dt_fabric)).v
                                ELSE JList(<<>>))

\* REST answers with an empty list: it is returned, Fabric is not asked.
C27_Witness ==
    /\ dt_pc = "done"
    /\ RestSucceeded(Val(dt_rest))
    /\ dt_out = Some(JList(<<>>))
    /\ dt_calls = << "rest" >>
    /\ IsNone(dt_fabric)

\* Both attempts raise and the empty list is returned.
BothRaised ==
    /\ dt_pc = "done"
    /\ ~RestSucceeded(Val(dt_rest))
    /\ ~discover_tables_via_fabric(Val(dt_fabric)).ok
    /\ dt_out = Some(JList(<<>>))


---------------------------------------------------------------------------
(* tap.py, TapPowerBI.discover_streams.  The world holds the answer of the *)
(* API to each request of one run: the answer to the listing of the        *)
(* workspaces; with each workspace the answers to the listings of its      *)
(* datasets and reports; with each dataset the answers of the two table    *)
(* endpoints; with each report what _discover_report_visuals gives.  The   *)
(* listed items are well formed: each has its id and name.                 *)

MaxWorkspaces == 2

\* A stream, by its class and the arguments it is made with.
Stream(class, name, workspace_id, dataset_id) ==
    [class |-> class, name |-> name, workspace_id |-> workspace_id, dataset_id |-> dataset_id]

\* The three streams the list starts with.
BaseStreams ==
    << Stream("WorkspacesStream", "workspaces", "", ""),
       Stream("DatasetsStream", "datasets", "", ""),
       Stream("DatasetTablesStream", "dataset_tables", "", "") >>

\* requests.get, raise_for_status and .json().get("value", []) in a try
\* block: Ok(value) or the exception raised.
ListingOf(resp) ==
    IF ~IsNone(RaisedBy(resp)) THEN Raise(Val(RaisedBy(resp)))
    ELSE IF ~JsonOf(resp).ok THEN JsonOf(resp)
    ELSE GetOr(JsonOf(resp).v, "value", JList(<<>>))

\* _discover_datasets and _discover_reports: [] when the listing raises.
ListOrEmpty(resp) == IF ListingOf(resp).ok THEN ListingOf(resp).v.v ELSE <<>>

\* _discover_tables as one call.
discover_tables(ds) ==
    IF discover_tables_via_rest(ds.rest).ok THEN discover_tables_via_rest(ds.rest).v.v
    ELSE IF discover_tables_via_fabric(ds.fabric).ok
    THEN discover_tables_via_fabric(ds.fabric).v.v
    ELSE <<>>

\* The loop over the tables of a dataset.
TableStreams(ws, ds, tabs) ==
    [n \in 1..Len(tabs) |->
        Stream("TableDataStream", ds.name \o " | table: " \o tabs[n].name, ws.id, ds.id)]

\* The loop over the datasets of a workspace.
RECURSIVE DatasetLoop(_, _, _)
DatasetLoop(found, ws, datasets) ==
    IF Len(datasets) = 0 THEN found
    ELSE DatasetLoop(found \o TableStreams(ws, Head(datasets), discover_tables(Head(datasets))),
                     ws, Tail(datasets))

\* The loop over the visuals of a report.
VisualStreams(ws, rep, vis) ==
    [n \in 1..Len(vis) |->
        Stream("VisualDataStream", rep.name \o " | visual: " \o vis[n].title,
               ws.id, Val(rep.datasetId))]

\* `not dataset_id`
NoDataset(rep) == IsNone(rep.datasetId) \/ Val(rep.datasetId) = ""

\* ReportLoop that leaves the loop at the first report whose visuals
\* cannot be discovered.
RECURSIVE ReportLoop_StopsAtFailure(_, _, _)
ReportLoop_StopsAtFailure(found, ws, reports) ==
    IF Len(reports) = 0 THEN found
    ELSE IF NoDataset(Head(reports)) THEN ReportLoop_StopsAtFailure(found, ws, Tail(reports))
    ELSE IF ~Head(reports).visuals.ok THEN found
    ELSE ReportLoop_StopsAtFailure(found \o VisualStreams(ws, Head(reports), Head(reports).visuals.v),
                                   ws, Tail(reports))

\* The loop over the reports of a workspace: a report without dataset and
\* a report whose visuals raise are passed over.
RECURSIVE ReportLoop(_, _, _)
ReportLoop(found, ws, reports) ==
    IF Len(reports) = 0 THEN found
    ELSE IF NoDataset(Head(reports)) \/ ~Head(reports).visuals.ok
    THEN ReportLoop(found, ws, Tail(reports))
    ELSE ReportLoop(found \o VisualStreams(ws, Head(reports), Head(reports).visuals.v),
                    ws, Tail(reports))

\* The listing of the workspaces succeeds.
ListWorkspaces ==
    /\ disc_pc = "list"
    /\ ListingOf(Val(world)).ok
    /\ workspaces' = ListingOf(Val(world)).v.v
    /\ ws_i' = 1
    /\ disc_pc' = "datasets"
    /\ UNCHANGED <<world, streams, notDisc>>

\* The listing of the workspaces raises: return streams.
ListWorkspacesFails ==
    /\ disc_pc = "list"
    /\ ~ListingOf(Val(world)).ok
    /\ disc_pc' = "done"
    /\ UNCHANGED <<world, workspaces, ws_i, streams, notDisc>>

\* The first half of the loop body: the table streams of a workspace.
DiscoverDatasets ==
    /\ disc_pc = "datasets" /\ ws_i <= Len(workspaces)
    /\ streams' = DatasetLoop(streams, workspaces[ws_i], ListOrEmpty(workspaces[ws_i].datasets))
    /\ disc_pc' = "reports"
    /\ UNCHANGED <<world, workspaces, ws_i, notDisc>>

\* The second half: the visual streams of a workspace.
DiscoverReports ==
    /\ disc_pc = "reports"
    /\ streams' = ReportLoop(streams, workspaces[ws_i], ListOrEmpty(workspaces[ws_i].reports))
    /\ ws_i' = ws_i + 1
    /\ disc_pc' = "datasets"
    /\ UNCHANGED <<world, workspaces, notDisc>>

ReturnStreams ==
    /\ disc_pc = "datasets" /\ ws_i > Len(workspaces)
    /\ disc_pc' = "done"
    /\ UNCHANGED <<world, workspaces, ws_i, streams, notDisc>>

\* The answers of the model.
Listing(items) == Response(200, Some(ValueBody(JList(items))), None)

FailedListings == { Response(500, None, None), Response(200, None, None) }

TablesAnswer(name) ==
    Response(200, Some(ValueBody(JList(<< RestTable(name) >>))), None)

FabricAnswer(part) ==
    FabricResponse(200, Some(DefinitionBody(JDict(<< <<"parts", << part >> >> >>))),
                   Raise("HTTPError"))

Dataset(id, name, rest, fabric) == [id |-> id, name |-> name, rest |-> rest, fabric |-> fabric]

\* A dataset with tables from REST, one with tables from Fabric only, and
\* one for which both ways raise.
PushDataset == Dataset("ds-1", "Push", TablesAnswer("Items"), FabricFailure("ConnectionError"))
FabricDataset ==
    Dataset("ds-2", "Model", Response(404, None, None),
            FabricAnswer(Part("definition/tables/A.tmdl", Encoded[VisibleText])))
LostDataset ==
    Dataset("ds-3", "Lost", Response(404, None, None),
            FabricAnswer([path |-> "definition/tables/F.tmdl"]))

DatasetListings ==
    { Response(500, None, None),
      Listing(<< PushDataset >>), Listing(<< FabricDataset >>),
      Listing(<< LostDataset, PushDataset >>) }

Visual(vtitle) ==
    [name |-> "v1", title |-> vtitle, visual_type |-> "card", page |-> "Page",
     dax_query |-> "EVALUATE ROW(\"M1\", [M1])",
     columns |-> << [name |-> "M1", dataType |-> "Double"] >>]

Report(id, name, datasetId, vis) ==
    [id |-> id, name |-> name, datasetId |-> datasetId, visuals |-> vis]

GoodReport == Report("r-1", "Sales", Some("ds-1"), Ok(<< Visual("Total"), Visual("Count") >>))
OtherReport == Report("r-2", "Stock", Some("ds-2"), Ok(<< Visual("Level") >>))
FailingReport == Report("r-3", "Broken", Some("ds-1"), Raise("HTTPError"))
UnboundReport == Report("r-4", "Paginated", None, Ok(<< Visual("Page") >>))

ReportListings ==
    { Response(200, None, None),
      Listing(<< GoodReport, FailingReport, OtherReport >>),
      Listing(<< UnboundReport, OtherReport >>) }

Workspace(id, datasets, reports) ==
    [id |-> id, name |-> "Team " \o id, datasets |-> datasets, reports |-> reports]

WorkspaceLists ==
    UNION { { [n \in 1..m |-> Workspace("ws-" \o NatToStr(n), d[n], r[n])] :
                d \in [1..m -> DatasetListings], r \in [1..m -> ReportListings] } :
            m \in 0..MaxWorkspaces }

Worlds == FailedListings \cup { Listing(ws) : ws \in WorkspaceLists }

InitDiscover ==
    /\ world \in { Some(w) : w \in Worlds }
    /\ workspaces = <<>> /\ ws_i = 1
    /\ streams = BaseStreams
    /\ disc_pc = "list"
    /\ TmdlIdle /\ st = ParserStart
    /\ DefIdle /\ DaxIdle /\ TitleIdle /\ VisIdle /\ FlatIdle /\ SchemaIdle /\ PollIdle /\ TabIdle

NextDiscover ==
    \/ ListWorkspaces
    \/ ListWorkspacesFails
    \/ DiscoverDatasets
    \/ DiscoverReports
    \/ ReturnStreams

SpecDiscover == InitDiscover /\ [][NextDiscover]_vars


---------------------------------------------------------------------------
(* Claim C28.                                                              *)

\* The concatenation of a sequence of sequences.
RECURSIVE Flat(_)
Flat(seqs) == IF Len(seqs) = 0 THEN <<>> ELSE Head(seqs) \o Flat(Tail(seqs))

IsPrefix(s, t) == Len(s) <= Len(t) /\ s = SubSeq(t, 1, Len(s))

\* The request answered with a success status and a JSON object.
Answered(resp) ==
    /\ IsNone(resp.error)
    /\ resp.status_code < 400
    /\ ~IsNone(resp.json)
    /\ Val(resp.json).t = "dict"

Listed(resp) == Get(Val(resp.json).v, "value", JList(<<>>)).v

\* What a dataset is worth in streams: one stream per table found, by the
\* REST endpoint when it answers, by the definition otherwise.
TablesFound(ds) ==
    IF Answered(ds.rest) THEN Listed(ds.rest)
    ELSE IF discover_tables_via_fabric(ds.fabric).ok
    THEN discover_tables_via_fabric(ds.fabric).v.v
    ELSE <<>>

DatasetUnit(ws, ds) ==
    With(TablesFound(ds),
         LAMBDA found :
             [n \in 1..Len(found) |->
                 [class |-> "TableDataStream",
                  name |-> ds.name \o " | table: " \o found[n].name,
                  workspace_id |-> ws.id, dataset_id |-> ds.id]])

\* What a report is worth: nothing without dataset or when the discovery
\* of its visuals fails, one stream per visual otherwise.
ReportUnit(ws, rep) ==
    IF IsNone(rep.datasetId) \/ ~rep.visuals.ok THEN <<>>
    ELSE [n \in 1..Len(rep.visuals.v) |->
             [class |-> "VisualDataStream",
              name |-> rep.name \o " | visual: " \o rep.visuals.v[n].title,
              workspace_id |-> ws.id, dataset_id |-> Val(rep.datasetId)]]

\* What a workspace is worth: the units of its datasets when their listing
\* succeeds, then the units of its reports when theirs does.
WorkspaceUnit(ws) ==
    (IF Answered(ws.datasets)
     THEN Flat([n \in 1..Len(Listed(ws.datasets)) |-> DatasetUnit(ws, Listed(ws.datasets)[n])])
     ELSE <<>>)
    \o (IF Answered(ws.reports)
        THEN Flat([n \in 1..Len(Listed(ws.reports)) |-> ReportUnit(ws, Listed(ws.reports)[n])])
        ELSE <<>>)

TheBaseStreams ==
    [n \in 1..3 |->
        [class |-> <<"WorkspacesStream", "DatasetsStream", "DatasetTablesStream">>[n],
         name |-> <<"workspaces", "datasets", "dataset_tables">>[n],
         workspace_id |-> "", dataset_id |-> ""]]

\* The streams of the units that do not fail, in the order of discovery.
DynamicStreams ==
    IF Answered(Val(world))
    THEN Flat([n \in 1..Len(Listed(Val(world))) |-> WorkspaceUnit(Listed(Val(world))[n])])
    ELSE <<>>

\* C28: discover_streams raises nothing and returns the three base streams
\* followed by the dynamic streams of every unit that did not fail: the base
\* streams alone when the listing of the workspaces fails; a failed listing
\* of the datasets or reports of a workspace, or a failed discovery of the
\* visuals of a report, costs the streams of that unit only.  On the way,
\* the list is always a prefix of that result: nothing found is taken back.
C28_FailuresCostTheirUnitOnly ==
    world # None =>
        /\ disc_pc \in { "list", "datasets", "reports", "done" }
        /\ IsPrefix(TheBaseStreams, streams)
        /\ With(TheBaseStreams \o DynamicStreams,
                LAMBDA all : /\ IsPrefix(streams, all)
                             /\ disc_pc = "done" => streams = all)
        /\ (disc_pc = "done" /\ ~Answered(Val(world))) => streams = TheBaseStreams

\* Two workspaces: in the first the listing of the datasets fails and a
\* report whose visuals fail stands between two that give streams; the
\* second gives table streams.
C28_Witness ==
    /\ disc_pc = "done"
    /\ Len(workspaces) = 2
    /\ ~Answered(workspaces[1].datasets)
    /\ Answered(workspaces[1].reports)
    /\ \E n \in 2..Len(Listed(workspaces[1].reports)) :
          /\ ~Listed(workspaces[1].reports)[n].visuals.ok
          /\ n < Len(Listed(workspaces[1].reports))
    /\ \E n \in 1..Len(streams) :
          streams[n].class = "VisualDataStream" /\ streams[n].name = "Stock | visual: Level"
             /\ streams[n].workspace_id = "ws-1"
    /\ \E n \in 1..Len(streams) :
          streams[n].class = "TableDataStream" /\ streams[n].workspace_id = "ws-2"


============================================================================
